---- MODULE Spec2Model ----
(***************************************************************************)
(* Model of the execution engine of myterm (src/x11_window.c): job control *)
(* (execute_command, handle_fg_command, handle_jobs_command, the SIGINT /   *)
(* SIGTSTP handlers and the main loop's signal consumer), the command      *)
(* history (add_to_history) and the reverse search (search_history,        *)
(* find_longest_common_substring).                                         *)
(*                                                                         *)
(* Strings are sequences of code units (naturals).  A multibyte string is  *)
(* a sequence of bytes, a wide string a sequence of code points; the two   *)
(* are related by mbstowcs / wcstombs (UTF-8 locale, code points < 2048).  *)
(***************************************************************************)
EXTENDS Integers, Sequences, FiniteSets, TLC

\* ---------------------------------------------------------------------
\* Bounds of the model
\* ---------------------------------------------------------------------
\* number of child processes the model lets the shell fork
MaxPid == 2
\* capacity of the job table (100 in the source), scaled down
MAX_BG_JOBS == 2
\* poll budget of the single-command collector (300 in the source), scaled
MAX_TIMEOUT == 2
\* the model stops creating jobs once job_counter has reached this value
MaxJobCounter == 3

\* number of pids the pipeline model lets the shell fork
MaxPipePids == 4
\* number of descriptors the shell can have open on pipes (RLIMIT_NOFILE)
MaxFds == 8
\* size of the commands[] array of the pipeline parser (16 in the source),
\* scaled down
MAX_PIPE_COMMANDS == 5
\* poll budget of the pipeline collector (500 in the source), scaled
MAX_PIPE_TIMEOUT == 2

\* OUTPUT_BUFFER_SIZE, 4096 in the source, scaled down
OUTPUT_BUFFER_SIZE == 6
\* sizeof(buffer) of the read buffer, 1024 in the source, scaled down
READ_BUFFER_SIZE == 3
\* the longest output a command of the capture model writes
MaxStream == 8
\* capacity of a pipe (65536 bytes on Linux), scaled down
PIPE_CAPACITY == 3

\* MAX_MULTIWATCH_COMMANDS, 10 in the source, scaled down
MAX_MULTIWATCH_COMMANDS == 2
\* MULTIWATCH_BUFFER_SIZE, 1024 in the source, scaled down
MULTIWATCH_BUFFER_SIZE == 2
\* max_read_attempts of the monitor, 50 in the source, scaled down
MAX_READ_ATTEMPTS == 2
\* the most bytes a watched command writes
MaxOutput == 2

\* sizeof(command_copy) in execute_command (MAX_COMMAND_LENGTH, 256 in the
\* source), scaled to the lines the dispatch model submits
COMMAND_COPY_SIZE == 32

VARIABLES
    pc,                \* where the shell is: "idle", "collect", "post", "return", "fg_wait",
                       \* "mw_monitor", "mw_final", "mw_cleanup", "mw_grace", "mw_block", "shutdown",
                       \* "pipe_collect", "pipe_post", "pipe_wait", "drain", "reap"
    foreground_pid,    \* tabs[active_tab_index].foreground_pid
    current_command,   \* tabs[active_tab_index].current_command (wide string)
    bg_processes,      \* bg_processes[0 .. bg_job_count-1], as a sequence
    job_counter,       \* job_counter
    signal_received,   \* volatile sig_atomic_t signal_received
    which_signal,      \* volatile sig_atomic_t which_signal
    procs,             \* the operating system's view of each child pid
    kills,             \* the kill() calls issued since the current line was submitted
    pid,               \* execute_command: local pid
    child_exited,      \* execute_command: local child_exited
    timeout_counter,   \* execute_command: local timeout_counter
    found_job_index,   \* handle_fg_command: local found_job_index (1-based)
    target_pid,        \* handle_fg_command: local target_pid
    target_job_id,     \* handle_fg_command: local target_job_id
    emitted,           \* lines passed to add_text_to_buffer by the current operation
    assigned_ids,      \* history variable: every job_id given to a job so far
    command_history,   \* tab->command_history[0 .. history_count-1] (wide strings)
    history_current,   \* tab->history_current
    appended,          \* history variable: the lines given to add_to_history, in
                       \* order, without the empty ones and immediate repetitions
    search_buffer,     \* tab->search_buffer, the search term (wide string)
    search_ret,        \* the value search_history returned, -2 before any call
    found_command,     \* search_history's out-parameter result
    search_listed,     \* the "Multiple matches found:" list search_history emitted
    match_length,      \* the value find_longest_common_substring returned, -1 before any call
    fdtable,           \* the shell's descriptor table: what each descriptor number is open on
    created,           \* execute_command: the pipes the current call has created, in order
    closes,            \* execute_command: the descriptor numbers the current call passed to close()
    pipefds,           \* execute_command: local int pipefds[2][2]
    final_output_pipe, \* execute_command: local int final_output_pipe[2]
    pids,              \* execute_command: local pid_t pids[16], the entries set so far
    num_commands,      \* execute_command: local num_commands
    stage_io,          \* what each forked stage has as stdin and stdout/stderr
    all_children_exited, \* execute_command: local all_children_exited
    stream,            \* the bytes the command writes to the capture pipe, in order
    stream_pos,        \* how many of them read() has taken out of the pipe
    full_output,       \* execute_command: local full_output[0 .. full_output_len - 1]
    cap_warned,        \* "Warning: Output truncated (too large)" was emitted
    cap_pc,            \* where the capture is: "idle", "loop", "drain"
    pipe_bytes,        \* bytes written to the capture pipe that no read() has taken yet
    multiwatch_processes, \* global multiwatch_processes[]: pid, active, fd of each entry
    multiwatch_count,  \* global multiwatch_count
    multiwatch_mode,   \* global multiwatch_mode
    temp_files,        \* the temporary file of each entry: exists, length, the child writing it
    fd_pos,            \* the file offset of each entry's monitoring descriptor
    mw_shown,          \* the output bytes displayed for each watched command, in order
    mw_finished,       \* "Command '...' finished" was displayed for the entry
    process_index,     \* cleanup_multiwatch: local process_index
    cleanup_from,      \* which call of cleanup_multiwatch is running or ran last
    cleanup_calls,     \* calls of cleanup_multiwatch since the last multiWatch started
    mw_started,        \* 1 once a multiWatch has set multiwatch_mode
    current_attempt,   \* monitor_multiwatch_processes: local current_attempt
    active_process_count, \* monitor_multiwatch_processes: local active_process_count
    cwd,               \* the working directory of the shell process
    status             \* execute_command: the wait status of the command that
                       \* finished (of the last stage for a pipeline)

jobvars == <<pc, foreground_pid, current_command, bg_processes, job_counter,
             signal_received, which_signal, procs, kills, pid, child_exited,
             timeout_counter, found_job_index, target_pid, target_job_id, emitted>>

histvars == <<command_history, history_current, appended,
              search_buffer, search_ret, found_command, search_listed,
              match_length>>

pipevars == <<fdtable, created, closes, pipefds, final_output_pipe, pids,
              num_commands, stage_io, all_children_exited>>

\* the variables the job control actions never touch
capvars == <<stream, stream_pos, full_output, cap_warned, cap_pc, pipe_bytes>>
\* the variables neither job control nor the pipeline launcher touches
mwvars == <<multiwatch_processes, multiwatch_count, multiwatch_mode, temp_files,
            fd_pos, mw_shown, mw_finished, process_index, cleanup_from,
            cleanup_calls, mw_started, current_attempt, active_process_count>>
othervars == <<capvars, mwvars, cwd, status>>
extvars == <<pipevars, othervars>>

vars == <<jobvars, assigned_ids, histvars, extvars>>

\* ---------------------------------------------------------------------
\* Strings and conversions
\* ---------------------------------------------------------------------
\* wcstombs returns (size_t)-1 when a code point has no multibyte form;
\* the model's code points below 2048 all have one
wcstombs_fails(w) == \E i \in 1..Len(w) : w[i] >= 2048

RECURSIVE wcstombs(_)
\* wcstombs in a UTF-8 locale: one byte below 128, two bytes below 2048
wcstombs(w) ==
    IF w = <<>> THEN <<>>
    ELSE LET c == Head(w)
         IN IF c < 128 THEN <<c>> \o wcstombs(Tail(w))
            ELSE <<192 + (c \div 64), 128 + (c % 64)>> \o wcstombs(Tail(w))

\* the literal "unknown"
StrUnknown == <<117, 110, 107, 110, 111, 119, 110>>

\* the command lines the model submits for launching: "s" and "\u00e9"
LaunchCommands == {<<115>>, <<233>>}

\* "fg" and "fg <d>"
FgLine(arg) == IF arg = 0 THEN <<102, 103>> ELSE <<102, 103, 32, 48 + arg>>
JobsLine == <<106, 111, 98, 115>>

\* sscanf(command, "fg %d", &target_job_id): the number of conversions and
\* the value read (single decimal digit strings are all the model submits)
SscanfFg(command) ==
    IF Len(command) >= 4 /\ SubSeq(command, 1, 3) = <<102, 103, 32>>
       /\ command[4] \in 48..57
    THEN [n |-> 1, id |-> command[4] - 48]
    ELSE [n |-> 0, id |-> -1]

\* ---------------------------------------------------------------------
\* Child processes as the kernel sees them
\* ---------------------------------------------------------------------
Pids == 1..MaxPid
\* "unborn": pid not yet used; "running"/"stopped": a live child of the shell;
\* "exited"/"signaled": a terminated child not yet waited for (zombie);
\* "gone": no process has this pid (the child was reaped);
\* "foreign"/"foreign_stopped": the kernel has given the pid of a reaped child
\* to a new process of the same user that is not a child of the shell
ProcStates == {"unborn", "running", "stopped", "exited", "signaled", "gone",
               "foreign", "foreign_stopped"}
NoSignal == "0"

IsZombie(st) == st \in {"exited", "signaled"}
\* a child the shell can still wait for but that has not terminated
IsLiveChild(st) == st \in {"running", "stopped"}
\* kill() returns 0 when a process with that pid exists, -1 (ESRCH) otherwise
KillOk(st) == st \in {"running", "stopped", "exited", "signaled", "foreign", "foreign_stopped"}

\* the states a process can be in right after a signal is sent to it.
\* The child has SIGINT/SIGTSTP at their default disposition after fork, but
\* the program it execs may catch or ignore them; SIGSTOP, SIGKILL and
\* SIGCONT cannot be caught.  Catchable signals sent to a stopped process
\* stay pending and leave it stopped.
SigOutcomes(st, sig) ==
    IF st \in {"running", "stopped"}
    THEN IF sig = "SIGKILL" THEN {"signaled"}
         ELSE IF sig = "SIGSTOP" THEN {"stopped"}
         ELSE IF sig = "SIGCONT" THEN {"running"}
         ELSE IF st = "stopped" THEN {"stopped"}
         ELSE IF sig = "SIGTSTP" THEN {"stopped", "running"}
         ELSE {"signaled", "running"}
    ELSE IF st \in {"foreign", "foreign_stopped"}
    THEN IF sig = "SIGKILL" THEN {"gone"}
         ELSE IF sig = "SIGSTOP" THEN {"foreign_stopped"}
         ELSE IF sig = "SIGCONT" THEN {"foreign"}
         ELSE IF st = "foreign_stopped" THEN {"foreign_stopped"}
         ELSE IF sig = "SIGTSTP" THEN {"foreign_stopped", "foreign"}
         ELSE {"gone", "foreign"}
    ELSE {st}

KillRec(p, sig, from) == [pid |-> p, sig |-> sig, from |-> from]

Msg(kind, job, st, cmd) == [kind |-> kind, job |-> job, st |-> st, cmd |-> cmd]

BGProcess(p, st, cmd, id) == [pid |-> p, status |-> st, command |-> cmd, job_id |-> id]

bg_job_count == Len(bg_processes)

\* the last entry is dropped instead of entry i
RemoveAt_Last(s, i) == SubSeq(s, 1, Len(s) - 1)

\* for (k = i; k < count - 1; k++) s[k] = s[k + 1]; count--
RemoveAt(s, i) == SubSeq(s, 1, i - 1) \o SubSeq(s, i + 1, Len(s))

\* ---------------------------------------------------------------------
\* Initial state: main() after initialize_tab and the signal() calls
\* ---------------------------------------------------------------------
JobInit ==
    /\ pc = "idle"
    /\ foreground_pid = -1
    /\ current_command = <<>>
    /\ bg_processes = <<>>
    /\ job_counter = 0
    /\ signal_received = 0
    /\ which_signal = NoSignal
    /\ procs = [p \in Pids |-> "unborn"]
    /\ kills = {}
    /\ pid = -1
    /\ child_exited = 0
    /\ timeout_counter = 0
    /\ found_job_index = -1
    /\ target_pid = -1
    /\ target_job_id = -1
    /\ emitted = <<>>
    /\ assigned_ids = {}

\* initialize_tab: empty history, not browsing, not searching
HistInit ==
    /\ command_history = <<>>
    /\ history_current = -1
    /\ appended = <<>>
    /\ search_buffer = <<>>
    /\ search_ret = -2
    /\ found_command = <<>>
    /\ search_listed = <<>>
    /\ match_length = -1

\* descriptor numbers the kernel hands out for pipes (0..2 are the terminal)
FdNumbers == 3..(2 + MaxFds)
\* a descriptor table entry: which pipe of the current call, and which end
FdEntry(k, e) == [pipe |-> k, end |-> e]
ClosedFd == FdEntry(-1, "closed")
\* int fd[2] as filled by pipe(); -1 before
FdPair(r, w) == [r |-> r, w |-> w]
NoPipe == FdPair(-1, -1)

\* execute_command has not created any pipe; no descriptor is open on one
PipeVarsInit ==
    /\ fdtable = [fd \in FdNumbers |-> ClosedFd]
    /\ created = <<>>
    /\ closes = <<>>
    /\ pipefds = [i \in 0..1 |-> NoPipe]
    /\ final_output_pipe = NoPipe
    /\ pids = <<>>
    /\ num_commands = 0
    /\ stage_io = <<>>
    /\ all_children_exited = 0

\* no output is being captured
CapVarsInit ==
    /\ stream = <<>>
    /\ stream_pos = 0
    /\ full_output = <<>>
    /\ cap_warned = FALSE
    /\ cap_pc = "idle"
    /\ pipe_bytes = 0

MwEntry(p, a, fd) == [pid |-> p, active |-> a, fd |-> fd]
TempFile(e, n, w) == [exists |-> e, len |-> n, writer |-> w]
NoFile == TempFile(FALSE, 0, -1)
MwIndexes == 1..MAX_MULTIWATCH_COMMANDS

\* the globals as the loader zeroes them; no multiWatch has run
MwVarsInit ==
    /\ multiwatch_processes = [i \in MwIndexes |-> MwEntry(0, 0, 0)]
    /\ multiwatch_count = 0
    /\ multiwatch_mode = 0
    /\ temp_files = [i \in MwIndexes |-> NoFile]
    /\ fd_pos = [i \in MwIndexes |-> 0]
    /\ mw_shown = [i \in MwIndexes |-> <<>>]
    /\ mw_finished = [i \in MwIndexes |-> FALSE]
    /\ process_index = 0
    /\ cleanup_from = "none"
    /\ cleanup_calls = 0
    /\ mw_started = 0
    /\ current_attempt = 0
    /\ active_process_count = 0

\* the directory the terminal was started in: "/"
StartDir == <<47>>

\* a wait status: how the process terminated ("exited" or "signaled") and
\* its exit code or signal number
WaitStatus(how, n) == [how |-> how, n |-> n]
\* no command has finished yet
NoStatus == WaitStatus("none", 0)

ExtInit ==
    /\ PipeVarsInit /\ CapVarsInit /\ MwVarsInit
    /\ cwd = StartDir
    /\ status = NoStatus

Init == JobInit /\ HistInit /\ ExtInit

\* ---------------------------------------------------------------------
\* Signal handlers (installed by main with signal())
\* ---------------------------------------------------------------------
handle_sigint ==
    /\ signal_received' = 1
    /\ which_signal' = "SIGINT"
    /\ UNCHANGED <<pc, foreground_pid, current_command, bg_processes, job_counter,
                   procs, kills, pid, child_exited, timeout_counter,
                   found_job_index, target_pid, target_job_id, emitted>>
    /\ UNCHANGED <<assigned_ids, histvars, extvars>>

\* a job_id derived from the number of table entries instead of the counter
NextJobId_FromCount == Len(bg_processes) + 1

\* the job_id handle_sigtstp gives to a new job: ++job_counter
NextJobId == job_counter + 1

\* the command text handle_sigtstp stores in the job record
JobCommandText ==
    IF wcstombs_fails(current_command) THEN StrUnknown
    ELSE wcstombs(current_command)

\* the handler inserts without looking at the number of entries
TableHasRoom_Always == TRUE

\* if (bg_job_count < MAX_BG_JOBS)
TableHasRoom == bg_job_count < MAX_BG_JOBS

\* TRUE when this run of the handler reaches the job table insertion
SigtstpAddsJob ==
    /\ foreground_pid > 0
    /\ KillOk(procs[foreground_pid])
    /\ TableHasRoom

handle_sigtstp ==
    /\ SigtstpAddsJob => job_counter < MaxJobCounter
    /\ signal_received' = 1
    /\ which_signal' = "SIGTSTP"
    /\ IF foreground_pid > 0
       THEN /\ kills' = kills \cup {KillRec(foreground_pid, "SIGSTOP", "handler")}
            /\ IF ~KillOk(procs[foreground_pid])
               THEN UNCHANGED <<foreground_pid, bg_processes, job_counter, procs, emitted>>
               ELSE /\ \E st2 \in SigOutcomes(procs[foreground_pid], "SIGSTOP") :
                          procs' = [procs EXCEPT ![foreground_pid] = st2]
                    /\ IF TableHasRoom
                       THEN /\ bg_processes' = Append(bg_processes,
                                   BGProcess(foreground_pid, "Stopped", JobCommandText, NextJobId))
                            /\ job_counter' = NextJobId
                            /\ emitted' = Append(emitted,
                                   Msg("job_suspended", NextJobId, "Stopped", JobCommandText))
                       ELSE UNCHANGED <<bg_processes, job_counter, emitted>>
                    /\ foreground_pid' = -1
       ELSE UNCHANGED <<foreground_pid, bg_processes, job_counter, procs, kills, emitted>>
    /\ UNCHANGED <<pc, current_command, pid, child_exited, timeout_counter,
                   found_job_index, target_pid, target_job_id>>
    /\ assigned_ids' = IF SigtstpAddsJob THEN assigned_ids \cup {NextJobId}
                       ELSE assigned_ids
    /\ UNCHANGED <<histvars, extvars>>

\* ---------------------------------------------------------------------
\* The children
\* ---------------------------------------------------------------------
ChildExit(p) ==
    /\ procs[p] = "running"
    /\ procs' = [procs EXCEPT ![p] = "exited"]
    /\ UNCHANGED <<pc, foreground_pid, current_command, bg_processes, job_counter,
                   signal_received, which_signal, kills, pid, child_exited,
                   timeout_counter, found_job_index, target_pid, target_job_id, emitted>>
    /\ UNCHANGED <<assigned_ids, histvars, extvars>>

\* the kernel reuses the pid of a reaped child for an unrelated process
PidRecycled(p) ==
    /\ procs[p] = "gone"
    /\ procs' = [procs EXCEPT ![p] = "foreign"]
    /\ UNCHANGED <<pc, foreground_pid, current_command, bg_processes, job_counter,
                   signal_received, which_signal, kills, pid, child_exited,
                   timeout_counter, found_job_index, target_pid, target_job_id, emitted>>
    /\ UNCHANGED <<assigned_ids, histvars, extvars>>

\* ---------------------------------------------------------------------
\* execute_command, single command path
\* ---------------------------------------------------------------------
Unborn == {p \in Pids : procs[p] = "unborn"}
NewPid == CHOOSE p \in Unborn : \A q \in Unborn : p <= q

\* fork and the parent's set-up before the monitoring loop
ExecLaunch(line, fork_ok) ==
    /\ pc = "idle"
    /\ Unborn # {}
    /\ IF fork_ok
       THEN /\ procs' = [procs EXCEPT ![NewPid] = "running"]
            /\ foreground_pid' = NewPid
            /\ pid' = NewPid
            /\ child_exited' = 0
            /\ timeout_counter' = 0
            /\ current_command' = line
            /\ emitted' = <<>>
            /\ pc' = "collect"
       ELSE /\ emitted' = <<Msg("fork_failed", 0, "", <<>>)>>
            /\ UNCHANGED <<procs, foreground_pid, pid, child_exited, timeout_counter,
                           current_command, pc>>
    /\ kills' = {}
    /\ UNCHANGED <<bg_processes, job_counter, signal_received, which_signal,
                   found_job_index, target_pid, target_job_id>>
    /\ UNCHANGED <<assigned_ids, histvars, extvars>>

\* the signal the collector loop sends for a Suspend (Ctrl+Z key or flag)
LoopSuspendSignal == "SIGTSTP"

\* kill(pid, sig) followed by break
LoopKillBreak(sig, sr, ws) ==
    /\ kills' = kills \cup {KillRec(pid, sig, "main")}
    /\ \E st2 \in SigOutcomes(procs[pid], sig) : procs' = [procs EXCEPT ![pid] = st2]
    /\ signal_received' = sr
    /\ which_signal' = ws
    /\ pc' = "post"
    /\ UNCHANGED <<foreground_pid, current_command, bg_processes, job_counter, pid,
                   child_exited, timeout_counter, found_job_index, target_pid,
                   target_job_id, emitted>>

\* one iteration of the monitoring loop; key is the pending X event,
\* rd the outcome of the non-blocking read
ExecLoop(key, rd) ==
    /\ pc = "collect"
    /\ IF key = "CtrlC" THEN LoopKillBreak("SIGINT", signal_received, which_signal)
       ELSE IF key = "CtrlZ"
            THEN LoopKillBreak(LoopSuspendSignal, signal_received, which_signal)
       ELSE IF signal_received = 1 /\ which_signal = "SIGINT"
            THEN LoopKillBreak("SIGINT", 0, which_signal)
       ELSE IF signal_received = 1 /\ which_signal = "SIGTSTP"
            THEN LoopKillBreak(LoopSuspendSignal, 0, which_signal)
       ELSE /\ signal_received' = 0
            /\ which_signal' = IF signal_received = 1 THEN NoSignal ELSE which_signal
            /\ IF rd \in {"overflow", "error"}
               THEN /\ emitted' = IF rd = "overflow"
                                  THEN Append(emitted, Msg("truncated", 0, "", <<>>))
                                  ELSE emitted
                    /\ pc' = "post"
                    /\ UNCHANGED <<procs, child_exited, timeout_counter>>
               ELSE /\ emitted' = emitted
                    /\ IF IsZombie(procs[pid])
                       THEN /\ procs' = [procs EXCEPT ![pid] = "gone"]
                            /\ child_exited' = 1
                            /\ timeout_counter' = timeout_counter + 1
                            /\ pc' = "post"
                       ELSE IF IsLiveChild(procs[pid])
                       THEN /\ timeout_counter' = timeout_counter + 1
                            /\ pc' = IF timeout_counter + 1 < MAX_TIMEOUT
                                     THEN "collect" ELSE "post"
                            /\ UNCHANGED <<procs, child_exited>>
                       ELSE /\ pc' = "post"
                            /\ UNCHANGED <<procs, child_exited, timeout_counter>>
            /\ UNCHANGED <<foreground_pid, current_command, bg_processes, job_counter,
                           kills, pid, found_job_index, target_pid, target_job_id>>
    /\ UNCHANGED <<assigned_ids, histvars, extvars>>

\* after the loop: timeout kill, residual read, close, zombie prevention
ExecPost ==
    /\ pc = "post"
    /\ LET timed == timeout_counter >= MAX_TIMEOUT
           st1 == IF timed THEN CHOOSE st \in SigOutcomes(procs[pid], "SIGKILL") : TRUE
                  ELSE procs[pid]
           \* waitpid(pid, &status, WNOHANG) == 0 : the child has not terminated
           alive == child_exited = 0 /\ IsLiveChild(st1)
       IN /\ emitted' = IF timed THEN Append(emitted, Msg("timed_out", 0, "", <<>>))
                        ELSE emitted
          /\ kills' = IF timed \/ alive
                      THEN kills \cup {KillRec(pid, "SIGKILL", "main")}
                      ELSE kills
          /\ procs' = IF child_exited = 0 /\ (IsLiveChild(st1) \/ IsZombie(st1))
                      THEN [procs EXCEPT ![pid] = "gone"]
                      ELSE [procs EXCEPT ![pid] = st1]
    /\ pc' = "return"
    /\ UNCHANGED <<foreground_pid, current_command, bg_processes, job_counter,
                   signal_received, which_signal, pid, child_exited, timeout_counter,
                   found_job_index, target_pid, target_job_id>>
    /\ UNCHANGED <<assigned_ids, histvars, extvars>>

\* the result is shown and the line is cleared, but tab->foreground_pid is
\* left as it is
ExecReturn_KeepsForeground ==
    /\ pc = "return"
    /\ emitted' = Append(emitted, Msg("result", 0, "", <<>>))
    /\ current_command' = <<>>
    /\ pc' = "idle"
    /\ pid' = -1
    /\ child_exited' = 0
    /\ timeout_counter' = 0
    /\ UNCHANGED <<foreground_pid, bg_processes, job_counter, signal_received,
                   which_signal, procs, kills, found_job_index, target_pid,
                   target_job_id>>
    /\ UNCHANGED <<assigned_ids, histvars, extvars>>

\* tab->foreground_pid = -1, the result is shown, handle_enter_key clears the line
ExecReturn ==
    /\ pc = "return"
    /\ foreground_pid' = -1
    /\ emitted' = Append(emitted, Msg("result", 0, "", <<>>))
    /\ current_command' = <<>>
    /\ pc' = "idle"
    /\ pid' = -1
    /\ child_exited' = 0
    /\ timeout_counter' = 0
    /\ UNCHANGED <<bg_processes, job_counter, signal_received, which_signal, procs,
                   kills, found_job_index, target_pid, target_job_id>>
    /\ UNCHANGED <<assigned_ids, histvars, extvars>>

\* ---------------------------------------------------------------------
\* handle_jobs_command
\* ---------------------------------------------------------------------
RECURSIVE JobsReap(_, _, _)
\* the clean-up loop: waitpid(pid, WNOHANG) on each entry; an entry is
\* removed only when waitpid returns the pid (> 0)
JobsReap(tbl, ps, i) ==
    IF i > Len(tbl) THEN [tbl |-> tbl, ps |-> ps]
    ELSE IF IsZombie(ps[tbl[i].pid])
         THEN JobsReap(RemoveAt(tbl, i), [ps EXCEPT ![tbl[i].pid] = "gone"], i)
         ELSE JobsReap(tbl, ps, i + 1)

JobLines(tbl) ==
    [i \in 1..Len(tbl) |-> Msg("job", tbl[i].job_id, tbl[i].status, tbl[i].command)]

handle_jobs_command ==
    /\ pc = "idle"
    /\ IF bg_job_count = 0
       THEN /\ emitted' = <<Msg("no_jobs", 0, "", <<>>)>>
            /\ UNCHANGED <<bg_processes, procs>>
       ELSE LET r == JobsReap(bg_processes, procs, 1)
            IN /\ bg_processes' = r.tbl
               /\ procs' = r.ps
               /\ emitted' = IF Len(r.tbl) = 0
                             THEN <<Msg("no_jobs_all_completed", 0, "", <<>>)>>
                             ELSE <<Msg("active_jobs", 0, "", <<>>)>> \o JobLines(r.tbl)
    /\ kills' = {}
    /\ UNCHANGED <<pc, foreground_pid, current_command, job_counter, signal_received,
                   which_signal, pid, child_exited, timeout_counter,
                   found_job_index, target_pid, target_job_id>>
    /\ UNCHANGED <<assigned_ids, histvars, extvars>>

\* ---------------------------------------------------------------------
\* handle_fg_command
\* ---------------------------------------------------------------------
\* the typed lines the model submits to fg: "fg" (arg 0) and "fg 1" ..
FgArgs == 0..MaxJobCounter

\* Step 2: the job id fg looks for
FgTargetJobId(command) ==
    IF SscanfFg(command).n # 1 THEN job_counter ELSE SscanfFg(command).id

\* Step 3: index of the first entry with that job_id, -1 when there is none
FindJob(tbl, id) ==
    IF \E i \in 1..Len(tbl) : tbl[i].job_id = id
    THEN CHOOSE i \in 1..Len(tbl) :
             /\ tbl[i].job_id = id
             /\ \A j \in 1..(i - 1) : tbl[j].job_id # id
    ELSE -1

\* an error return before anything was changed
FgError(kind, id) ==
    /\ emitted' = <<Msg(kind, id, "", <<>>)>>
    /\ kills' = {}
    /\ UNCHANGED <<pc, foreground_pid, current_command, bg_processes, job_counter,
                   signal_received, which_signal, procs, pid, child_exited,
                   timeout_counter, found_job_index, target_pid, target_job_id>>

\* the status is set to "Running" before the result of kill() is looked at
FgResumeFailed_StatusFirst(idx, id) ==
    /\ kills' = {KillRec(bg_processes[idx].pid, "SIGCONT", "main")}
    /\ emitted' = <<Msg("fg_resume_failed", id, "", <<>>)>>
    /\ bg_processes' = [bg_processes EXCEPT ![idx].status = "Running"]
    /\ UNCHANGED <<pc, foreground_pid, current_command, job_counter,
                   signal_received, which_signal, procs, pid, child_exited,
                   timeout_counter, found_job_index, target_pid, target_job_id>>

\* Step 5 when kill(target_pid, SIGCONT) returns -1
FgResumeFailed(idx, id) ==
    /\ kills' = {KillRec(bg_processes[idx].pid, "SIGCONT", "main")}
    /\ emitted' = <<Msg("fg_resume_failed", id, "", <<>>)>>
    /\ UNCHANGED <<pc, foreground_pid, current_command, bg_processes, job_counter,
                   signal_received, which_signal, procs, pid, child_exited,
                   timeout_counter, found_job_index, target_pid, target_job_id>>

\* Steps 5 and 6: resume if stopped, take the foreground, enter waitpid
FgResume(line, idx, id) ==
    LET job == bg_processes[idx]
    IN /\ IF job.status = "Stopped"
          THEN /\ kills' = {KillRec(job.pid, "SIGCONT", "main")}
               /\ \E st2 \in SigOutcomes(procs[job.pid], "SIGCONT") :
                      procs' = [procs EXCEPT ![job.pid] = st2]
               /\ bg_processes' = [bg_processes EXCEPT ![idx].status = "Running"]
          ELSE /\ kills' = {}
               /\ UNCHANGED <<procs, bg_processes>>
       /\ foreground_pid' = job.pid
       /\ target_pid' = job.pid
       /\ target_job_id' = id
       /\ found_job_index' = idx
       /\ current_command' = line
       /\ emitted' = <<Msg("fg_resumed", id, "", job.command)>>
       /\ pc' = "fg_wait"
       /\ UNCHANGED <<job_counter, signal_received, which_signal, pid, child_exited,
                      timeout_counter>>

\* handle_fg_command up to the blocking waitpid; line is the typed line
handle_fg_command(line) ==
    /\ pc = "idle"
    /\ LET command == wcstombs(line)
           id == FgTargetJobId(command)
           idx == FindJob(bg_processes, id)
       IN IF bg_job_count = 0 THEN FgError("fg_no_current_job", 0)
          ELSE IF idx = -1 THEN FgError("fg_job_not_found", id)
          ELSE IF bg_processes[idx].status = "Stopped"
                  /\ ~KillOk(procs[bg_processes[idx].pid])
               THEN FgResumeFailed(idx, id)
               ELSE FgResume(line, idx, id)
    /\ UNCHANGED <<assigned_ids, histvars, extvars>>

\* waitpid(target_pid, &process_status, 0) returns for a pid in state st:
\* when the child has terminated, or at once with -1 (ECHILD) when the pid is
\* not a child of the shell; without WUNTRACED a stopped child is not reported
FgWaitReturns(st) == IsZombie(st) \/ ~IsLiveChild(st)

\* Steps 7 and 8: waitpid returns, the outcome is reported, the job removed
FgWaitReturn ==
    /\ pc = "fg_wait"
    /\ FgWaitReturns(procs[target_pid])
    /\ emitted' = Append(emitted,
          Msg(IF procs[target_pid] = "exited" THEN "job_exited"
              ELSE IF procs[target_pid] = "signaled" THEN "job_signaled"
              ELSE IF procs[target_pid] = "stopped" THEN "job_stopped_by_signal"
              ELSE "fg_wait_error", target_job_id, "", <<>>))
    /\ procs' = IF IsZombie(procs[target_pid])
                THEN [procs EXCEPT ![target_pid] = "gone"] ELSE procs
    /\ bg_processes' = RemoveAt(bg_processes, found_job_index)
    /\ foreground_pid' = -1
    /\ current_command' = <<>>
    /\ pc' = "idle"
    /\ found_job_index' = -1
    /\ target_pid' = -1
    /\ target_job_id' = -1
    /\ UNCHANGED <<job_counter, signal_received, which_signal, kills, pid, child_exited,
                   timeout_counter>>
    /\ UNCHANGED <<assigned_ids, histvars, extvars>>

\* ---------------------------------------------------------------------
\* main(): the event loop's signal consumer (Step 17)
\* ---------------------------------------------------------------------
MainLoopSignals ==
    /\ pc = "idle"
    /\ signal_received = 1
    /\ signal_received' = 0
    /\ which_signal' = NoSignal
    /\ IF which_signal \in {"SIGINT", "SIGTSTP"} /\ foreground_pid > 0
       THEN LET sig == IF which_signal = "SIGINT" THEN "SIGINT" ELSE "SIGSTOP"
            IN /\ kills' = kills \cup {KillRec(foreground_pid, sig, "main")}
               /\ \E st2 \in SigOutcomes(procs[foreground_pid], sig) :
                      procs' = [procs EXCEPT ![foreground_pid] = st2]
               /\ foreground_pid' = -1
       ELSE UNCHANGED <<kills, procs, foreground_pid>>
    /\ UNCHANGED <<pc, current_command, bg_processes, job_counter, pid, child_exited,
                   timeout_counter, found_job_index, target_pid, target_job_id, emitted>>
    /\ UNCHANGED <<assigned_ids, histvars, extvars>>

\* ---------------------------------------------------------------------
\* Specification of the job control engine
\* ---------------------------------------------------------------------
Keys == {"none", "CtrlC", "CtrlZ"}
ReadOutcomes == {"none", "overflow", "error"}

Next ==
    \/ handle_sigint
    \/ handle_sigtstp
    \/ \E p \in Pids : ChildExit(p)
    \/ \E p \in Pids : PidRecycled(p)
    \/ \E line \in LaunchCommands, fork_ok \in BOOLEAN : ExecLaunch(line, fork_ok)
    \/ \E key \in Keys, rd \in ReadOutcomes : ExecLoop(key, rd)
    \/ ExecPost
    \/ ExecReturn
    \/ handle_jobs_command
    \/ \E arg \in FgArgs : handle_fg_command(FgLine(arg))
    \/ FgWaitReturn
    \/ MainLoopSignals

Spec == Init /\ [][Next]_vars

TypeOK ==
    /\ pc \in {"idle", "collect", "post", "return", "fg_wait"}
    /\ foreground_pid \in {-1} \cup Pids
    /\ job_counter \in Nat
    /\ signal_received \in {0, 1}
    /\ which_signal \in {NoSignal, "SIGINT", "SIGTSTP"}
    /\ procs \in [Pids -> ProcStates]
    /\ bg_job_count <= MAX_BG_JOBS

\* =====================================================================
\* Properties of the job control engine (specification Spec)
\* =====================================================================
JobPids == {bg_processes[i].pid : i \in 1..Len(bg_processes)}
JobIds == {bg_processes[i].job_id : i \in 1..Len(bg_processes)}
EmittedKinds == {emitted[i].kind : i \in 1..Len(emitted)}

\* C1: while execute_command runs, the process it launched is never sent
\* SIGKILL by the shell once a Suspend has put it in the job table as Stopped
C1_SuspendedJobSurvives ==
    \A i \in 1..Len(bg_processes) :
        (/\ pc \in {"collect", "post", "return"}
         /\ bg_processes[i].pid = pid
         /\ bg_processes[i].status = "Stopped")
        => KillRec(pid, "SIGKILL", "main") \notin kills

\* a Suspend reaches the shell while the foreground process is running, as
\* the SIGTSTP signal or as the Ctrl+Z key event seen by the collector loop
SuspendByKey == \E rd \in ReadOutcomes : ExecLoop("CtrlZ", rd)
SuspendDelivered ==
    /\ foreground_pid > 0
    /\ procs[foreground_pid] = "running"
    /\ (handle_sigtstp \/ SuspendByKey)

\* C2: every Suspend delivered to a running foreground process sends it
\* SIGSTOP and not SIGTSTP, appends one Stopped job with a fresh job_id and
\* the command text, and clears the foreground slot
C2_SuspendStopsAndRecordsJob ==
    [][SuspendDelivered =>
         /\ \E k \in kills' : k.pid = foreground_pid /\ k.sig = "SIGSTOP"
         /\ \A k \in kills' \ kills : k.pid = foreground_pid => k.sig # "SIGTSTP"
         /\ Len(bg_processes') = Len(bg_processes) + 1
         /\ LET j == bg_processes'[Len(bg_processes')]
            IN /\ j.pid = foreground_pid
               /\ j.status = "Stopped"
               /\ j.command = wcstombs(current_command)
               /\ j.job_id \notin assigned_ids
         /\ foreground_pid' = -1]_vars

\* C3: a run of a signal handler changes neither the job table nor the
\* foreground slot and issues no kill()
C3_HandlersOnlySetFlags ==
    [][(handle_sigint \/ handle_sigtstp) =>
         UNCHANGED <<bg_processes, job_counter, foreground_pid, kills>>]_vars

\* fg cannot proceed: no job, the requested id is not in the table, or the
\* SIGCONT it sends fails
FgCannotProceed(arg) ==
    \/ Len(bg_processes) = 0
    \/ arg # 0 /\ arg \notin JobIds
    \/ \E k \in kills' : k.sig = "SIGCONT" /\ ~KillOk(procs[k.pid])
FgErrorKinds == {"fg_no_current_job", "fg_job_not_found", "fg_resume_failed"}
FgErrorReported == Len(emitted') = 1 /\ emitted'[1].kind \in FgErrorKinds

\* C4: when fg cannot proceed it reports an error, and an fg that reports an
\* error leaves the job table, job_counter and the foreground slot unchanged
C4_FgErrorChangesNothing ==
    [][\A arg \in FgArgs :
          handle_fg_command(FgLine(arg)) =>
             /\ FgCannotProceed(arg) => FgErrorReported
             /\ FgErrorReported =>
                   /\ UNCHANGED <<bg_processes, job_counter, foreground_pid>>
                   /\ pc' = "idle"]_vars

\* an fg whose SIGCONT failed has returned and the stopped job is still there
C4_Witness ==
    /\ pc = "idle"
    /\ EmittedKinds = {"fg_resume_failed"}
    /\ \E i \in 1..Len(bg_processes) : bg_processes[i].status = "Stopped"

\* C5: when the process fg waits for is stopped again, fg returns and
\* reports the stop
C5_FgReturnsOnStop ==
    [][(FgWaitReturn /\ procs[target_pid] \in {"stopped", "foreign_stopped"}) =>
          \E i \in 1..Len(emitted') : emitted'[i].kind = "job_stopped_by_signal"]_vars

\* C6: after jobs has run, no entry of the table belongs to a process that
\* has terminated, and the entries of live processes are all retained
C6_JobsDropsTerminated ==
    [][handle_jobs_command =>
         /\ \A i \in 1..Len(bg_processes') : IsLiveChild(procs'[bg_processes'[i].pid])
         /\ \A i \in 1..Len(bg_processes) :
               IsLiveChild(procs[bg_processes[i].pid]) =>
                   \E j \in 1..Len(bg_processes') : bg_processes'[j] = bg_processes[i]]_vars

\* C7: a job added to the table gets a job_id greater than every job_id
\* given out before, whether or not the jobs that held them are still there
C7_JobIdsStrictlyIncrease ==
    [][Len(bg_processes') > Len(bg_processes) =>
          \A id \in assigned_ids : bg_processes'[Len(bg_processes')].job_id > id]_vars

\* a second job exists after the first one was removed from the table
C7_Witness ==
    /\ 1 \in assigned_ids
    /\ 1 \notin JobIds
    /\ \E i \in 1..Len(bg_processes) : bg_processes[i].job_id >= 2

\* ---------------------------------------------------------------------
\* Bounds of the history model
\* ---------------------------------------------------------------------
\* size of the command buffers (256 in the source), scaled down: a typed
\* line has at most MAX_COMMAND_LENGTH - 1 characters
MAX_COMMAND_LENGTH == 3
\* capacity of the history (10000 in the source), scaled down
MAX_HISTORY_SIZE == 3
\* size of search_history's matches array (10 in the source), scaled down
MAX_DISPLAY_MATCHES == 2
\* the model stops appending once this many commands beyond the capacity
\* have been appended
MaxEvictions == 1
\* the longest search term the model types
MaxTermLen == 2

\* ---------------------------------------------------------------------
\* Command history: handle_enter_key's conversion and add_to_history
\* ---------------------------------------------------------------------
\* all strings over alphabet S of at most n units
Strs(S, n) == UNION {[1..k -> S] : k \in 0..n}

\* the characters typed into the command line: 'a' and U+00E9
HistAlphabet == {97, 233}
\* the lines the character-input handler can build
\* (command_length < MAX_COMMAND_LENGTH - 1 before each insertion)
Lines == Strs(HistAlphabet, MAX_COMMAND_LENGTH - 1)

\* handle_enter_key: the multibyte command handed to add_to_history
EnterCommand(line) ==
    IF wcstombs_fails(line) THEN [i \in 1..Len(line) |-> line[i] % 256]
    ELSE wcstombs(line)

RECURSIVE mbstowcs_fails(_)
\* mbstowcs returns (size_t)-1 on a byte sequence that is not UTF-8
mbstowcs_fails(s) ==
    IF s = <<>> THEN FALSE
    ELSE IF s[1] < 128 THEN mbstowcs_fails(Tail(s))
    ELSE IF s[1] \in 194..223 /\ Len(s) >= 2 /\ s[2] \in 128..191
         THEN mbstowcs_fails(Tail(Tail(s)))
    ELSE TRUE

RECURSIVE mbstowcs(_)
\* mbstowcs in a UTF-8 locale, on a well-formed string: all its characters
mbstowcs(s) ==
    IF s = <<>> THEN <<>>
    ELSE IF s[1] < 128 THEN <<s[1]>> \o mbstowcs(Tail(s))
    ELSE <<(s[1] - 192) * 64 + (s[2] - 128)>> \o mbstowcs(Tail(Tail(s)))

\* what an uninitialised wchar_t of the stack array wide_command can hold:
\* 0, or a non-zero word (followed by a zero word)
UninitTails == {<<>>, <<63>>}

\* the strings wcscmp and wcscpy can read from wide_command after Step 1.
\* mbstowcs(wide_command, command, MAX_COMMAND_LENGTH - 1) stores no
\* terminator when it stops because all MAX_COMMAND_LENGTH - 1 elements are
\* written; wide_command[MAX_COMMAND_LENGTH - 1] is then uninitialised.
WideCommandValues(command) ==
    LET n == MAX_COMMAND_LENGTH - 1
    IN IF mbstowcs_fails(command)
       THEN LET k == IF Len(command) < n THEN Len(command) ELSE n
            IN {[i \in 1..k |-> command[i]]}
       ELSE LET w == mbstowcs(command)
            IN IF Len(w) < n THEN {w}
               ELSE {SubSeq(w, 1, n) \o t : t \in UninitTails}

history_count == Len(command_history)

\* history variable: the commands appended so far
AppendedAfter(command) ==
    IF command = <<>> \/ (appended # <<>> /\ appended[Len(appended)] = command)
    THEN appended
    ELSE Append(appended, command)

\* Step 3 of add_to_history: store at the end, shifting when full
StoreAtEnd(wide_command) ==
    IF history_count < MAX_HISTORY_SIZE
    THEN Append(command_history, wide_command)
    ELSE Append(Tail(command_history), wide_command)

add_to_history(command) ==
    /\ Len(AppendedAfter(command)) <= MAX_HISTORY_SIZE + MaxEvictions
    /\ appended' = AppendedAfter(command)
    /\ IF Len(command) = 0
       THEN UNCHANGED <<command_history, history_current>>
       ELSE \E wide_command \in WideCommandValues(command) :
               IF history_count > 0 /\ command_history[history_count] = wide_command
               THEN UNCHANGED <<command_history, history_current>>
               ELSE /\ command_history' = StoreAtEnd(wide_command)
                    /\ history_current' = Len(command_history')
    /\ UNCHANGED <<search_buffer, search_ret, found_command, search_listed,
                   match_length>>
    /\ UNCHANGED <<jobvars, assigned_ids, extvars>>

\* the commands Enter can submit, and the empty command (Step 1's guard)
Commands == {EnterCommand(line) : line \in Lines}

\* the history is independent of the job control state: handle_enter_key
\* calls add_to_history before execute_command, and neither reads the
\* other's variables, so the history is explored on its own
NextHist == \E command \in Commands : add_to_history(command)

HistSpec == Init /\ [][NextHist]_vars

HistTypeOK ==
    /\ command_history \in Seq(Strs(HistAlphabet \cup {63}, MAX_COMMAND_LENGTH))
    /\ history_count <= MAX_HISTORY_SIZE
    /\ history_current \in -1..MAX_HISTORY_SIZE
    /\ appended \in Seq(Commands)

\* ---------------------------------------------------------------------
\* Claims about the command history (checked under HistSpec)
\* ---------------------------------------------------------------------
NoAdjacentEqual(h) == \A i \in 1..(Len(h) - 1) : h[i] # h[i + 1]

\* the call repeats the command appended last, or passes the empty command
RepeatsLastCommand(command) ==
    \/ command = <<>>
    \/ appended # <<>> /\ command = appended[Len(appended)]

\* C8: after every add_to_history call no two adjacent entries of the
\* history are equal, and a call whose command is empty or the same as the
\* command stored last (x added twice in a row) leaves history_count and
\* every stored entry as they were, also when the history is full
C8_NoAdjacentDuplicates ==
    [][\A command \in Commands :
          add_to_history(command) =>
             /\ NoAdjacentEqual(command_history')
             /\ RepeatsLastCommand(command) => command_history' = command_history]_vars

\* the last n elements of s
LastN(s, n) == IF Len(s) <= n THEN s ELSE SubSeq(s, Len(s) - n + 1, Len(s))

\* C9: history_count never exceeds the capacity, and once more than
\* MAX_HISTORY_SIZE commands (no two consecutive equal) have been appended
\* the stored entries are the last MAX_HISTORY_SIZE of them, in order
C9_BoundedFifo ==
    /\ history_count <= MAX_HISTORY_SIZE
    /\ Len(appended) > MAX_HISTORY_SIZE =>
          command_history =
             [i \in 1..MAX_HISTORY_SIZE |->
                 mbstowcs(LastN(appended, MAX_HISTORY_SIZE)[i])]

\* ---------------------------------------------------------------------
\* Reverse search: find_longest_common_substring and search_history
\* ---------------------------------------------------------------------
\* tolower on one byte
tolower(c) == IF c \in 65..90 THEN c + 32 ELSE c
ToLowerStr(s) == [i \in 1..Len(s) |-> tolower(s[i])]

\* strstr(haystack, needle) != NULL, for a non-empty needle
strstr(haystack, needle) ==
    \E i \in 1..(Len(haystack) - Len(needle) + 1) :
        SubSeq(haystack, i, i + Len(needle) - 1) = needle

\* Step 4's inner while loop: the length of the run of characters, equal up
\* to case, that starts at str1[i] and str2[j]
RECURSIVE current_match_length(_, _, _, _)
current_match_length(str1, str2, i, j) ==
    IF i <= Len(str1) /\ j <= Len(str2) /\ tolower(str1[i]) = tolower(str2[j])
    THEN 1 + current_match_length(str1, str2, i + 1, j + 1)
    ELSE 0

\* the largest element of a non-empty set of naturals
MaxOf(S) == CHOOSE m \in S : \A x \in S : x <= m

\* as find_longest_common_substring, with Step 4 comparing only from the
\* first character of str1
find_longest_common_substring_FirstIndex(str1, str2) ==
    IF str1 = <<>> \/ str2 = <<>> THEN 0
    ELSE IF strstr(str2, str1) THEN Len(str1)
    ELSE IF strstr(ToLowerStr(str2), ToLowerStr(str1)) THEN Len(str1)
    ELSE MaxOf({0} \cup {current_match_length(str1, str2, 1, j) :
                            j \in 1..Len(str2)})

find_longest_common_substring(str1, str2) ==
    IF str1 = <<>> \/ str2 = <<>> THEN 0
    ELSE IF strstr(str2, str1) THEN Len(str1)
    ELSE IF strstr(ToLowerStr(str2), ToLowerStr(str1)) THEN Len(str1)
    ELSE MaxOf({0} \cup {current_match_length(str1, str2, i, j) :
                            i \in 1..Len(str1), j \in 1..Len(str2)})

\* Step 2 of search_history and the per-entry conversion of Step 3:
\* wcstombs with the truncating fallback
ToMultibyte(w) ==
    IF wcstombs_fails(w) THEN [i \in 1..Len(w) |-> w[i] % 256]
    ELSE wcstombs(w)

\* Step 3: the entries in scan order (most recent first), each with its
\* match_length and history_index (0-based, as in the source)
Scanned(search_term) ==
    [k \in 1..history_count |->
        LET idx == history_count + 1 - k
        IN [command       |-> command_history[idx],
            match_length  |-> find_longest_common_substring(
                                 ToMultibyte(search_term),
                                 ToMultibyte(command_history[idx])),
            history_index |-> idx - 1]]

\* the matches[] array after the scan: the non-empty entries that score at
\* least 1, in scan order, as long as match_count < MAX_DISPLAY_MATCHES
Matches(search_term) ==
    LET Stored(m) == m.command # <<>> /\ m.match_length >= 1
        all == SelectSeq(Scanned(search_term), Stored)
    IN IF Len(all) <= MAX_DISPLAY_MATCHES THEN all
       ELSE SubSeq(all, 1, MAX_DISPLAY_MATCHES)

\* Step 6: the first index whose match_length no later one exceeds strictly
BestMatchIndex(matches) ==
    CHOOSE b \in 1..Len(matches) :
        /\ \A m \in 1..Len(matches) : matches[m].match_length <= matches[b].match_length
        /\ \A m \in 1..(b - 1) : matches[m].match_length < matches[b].match_length

\* wcsncpy(result, command, MAX_COMMAND_LENGTH - 1) and the terminator
CopyResult(command) ==
    IF Len(command) <= MAX_COMMAND_LENGTH - 1 THEN command
    ELSE SubSeq(command, 1, MAX_COMMAND_LENGTH - 1)

\* search_history(tab, tab->search_buffer, found_command, show_multiple),
\* found_command zero-initialised by the caller
search_history(show_multiple) ==
    LET search_term == search_buffer
        matches == Matches(search_term)
        match_count == Len(matches)
    IN /\ search_ret = -2
       /\ IF Len(search_term) = 0 \/ Len(search_term) >= MAX_COMMAND_LENGTH
          THEN /\ search_ret' = 0
               /\ found_command' = <<>>
               /\ search_listed' = <<>>
          ELSE IF match_count = 0
          THEN /\ search_ret' = (IF show_multiple = 1 THEN -1 ELSE 0)
               /\ found_command' = <<>>
               /\ search_listed' = <<>>
          ELSE IF show_multiple = 1 /\ match_count > 1
          THEN /\ search_ret' = match_count
               /\ found_command' = <<>>
               /\ search_listed' = [i \in 1..match_count |-> matches[i].command]
          ELSE /\ search_ret' = 1
               /\ found_command' = CopyResult(matches[BestMatchIndex(matches)].command)
               /\ search_listed' = <<>>
       /\ UNCHANGED <<command_history, history_current, appended, search_buffer,
                      match_length>>
       /\ UNCHANGED <<jobvars, assigned_ids, extvars>>

\* the characters of the lines in the history: 'a' and 'b'
SearchAlphabet == {97, 98}
\* the entries add_to_history can have stored from typed lines
SearchEntries == Strs(SearchAlphabet, MAX_COMMAND_LENGTH - 1) \ {<<>>}
\* the histories add_to_history can have built from them
SearchHistories ==
    {h \in UNION {[1..n -> SearchEntries] : n \in 0..MAX_HISTORY_SIZE} :
        \A i \in 1..(Len(h) - 1) : h[i] # h[i + 1]}
\* the terms the search-mode key handler can have built: also with 'A'
SearchTerms == Strs(SearchAlphabet \cup {65}, MaxTermLen)

SearchInit ==
    /\ JobInit
    /\ ExtInit
    /\ command_history \in SearchHistories
    /\ history_current = Len(command_history)
    /\ appended = [i \in 1..Len(command_history) |-> ToMultibyte(command_history[i])]
    /\ search_buffer \in SearchTerms
    /\ search_ret = -2
    /\ found_command = <<>>
    /\ search_listed = <<>>
    /\ match_length = -1

NextSearch == \E show_multiple \in {0, 1} : search_history(show_multiple)

SearchSpec == SearchInit /\ [][NextSearch]_vars

\* ---------------------------------------------------------------------
\* Claims about the reverse search (checked under SearchSpec)
\* ---------------------------------------------------------------------
\* the score of entry i of the history against the current search term
Score(i) ==
    find_longest_common_substring(ToMultibyte(search_buffer),
                                  ToMultibyte(command_history[i]))

\* the most recent entry among those with the maximal score
BestEntry ==
    CHOOSE i \in 1..history_count :
        /\ \A j \in 1..history_count : Score(j) <= Score(i)
        /\ \A j \in (i + 1)..history_count : Score(j) < Score(i)

\* C10: an incremental search (show_multiple = 0) returns the entry whose
\* score is maximal over all non-empty entries of the history, the most
\* recent one among those of maximal score, and reports no match only
\* when every entry scores 0
C10_SearchReturnsBestOfAll ==
    [][(search_history(0) /\ search_buffer # <<>>) =>
          IF \A i \in 1..history_count : Score(i) = 0
          THEN search_ret' = 0
          ELSE search_ret' = 1 /\ found_command' = command_history[BestEntry]]_vars

\* ---------------------------------------------------------------------
\* execute_command, pipeline path (Step 6 and Step 9)
\* ---------------------------------------------------------------------
RECURSIVE StrTokAll(_, _)
\* the tokens strtok(s, d), strtok(NULL, d), ... return: the maximal
\* non-empty runs of characters other than d
StrTokAll(s, d) ==
    IF s = <<>> THEN <<>>
    ELSE IF s[1] = d THEN StrTokAll(Tail(s), d)
    ELSE LET stop == IF \E i \in 1..Len(s) : s[i] = d
                     THEN CHOOSE i \in 1..Len(s) :
                              s[i] = d /\ \A j \in 1..(i - 1) : s[j] # d
                     ELSE Len(s) + 1
         IN <<SubSeq(s, 1, stop - 1)>> \o StrTokAll(SubSeq(s, stop + 1, Len(s)), d)

RECURSIVE ParseLoop(_, _)
\* Step 6: while ((commands[num_commands] = strtok(NULL, "|")) != NULL
\*                && num_commands < 15) num_commands++;
ParseLoop(num, ntokens) ==
    IF num < ntokens /\ num < MAX_PIPE_COMMANDS - 1
    THEN ParseLoop(num + 1, ntokens)
    ELSE num

\* num_commands after Step 6 for a line with at least one token
NumCommands(line) == ParseLoop(1, Len(StrTokAll(line, 124)))

RECURSIVE PipeLine(_)
\* "c|c|...|c" with n stages
PipeLine(n) == IF n = 1 THEN <<99>> ELSE <<99, 124>> \o PipeLine(n - 1)
\* the pipelines the model submits: up to one stage more than the array holds
PipeLines == {PipeLine(n) : n \in 2..(MAX_PIPE_COMMANDS + 1)}

FreeFds(fdt) == {fd \in FdNumbers : fdt[fd] = ClosedFd}
MinOf(S) == CHOOSE m \in S : \A x \in S : m <= x

\* pipe(fd) as the k-th pipe of the call: the two lowest free descriptors
PipeCall(fdt, k) ==
    LET r == MinOf(FreeFds(fdt))
        w == MinOf(FreeFds(fdt) \ {r})
    IN [fdt  |-> [fdt EXCEPT ![r] = FdEntry(k, "r"), ![w] = FdEntry(k, "w")],
        pair |-> FdPair(r, w)]
\* pipe() returns -1: the descriptor table is full, or the injected failure
PipeCallFails(fdt, injected) == injected \/ Cardinality(FreeFds(fdt)) < 2

RECURSIVE CreateLinkPipes(_, _, _, _)
\* for (i = 0; i < num_commands - 1; i++) pipe(pipefds[i % 2]);
\* st.failed is set when a pipe() call fails
CreateLinkPipes(st, i, n, fail_at) ==
    IF i >= n - 1 THEN st
    ELSE IF PipeCallFails(st.fdt, fail_at = i + 1)
    THEN [st EXCEPT !.failed = TRUE]
    ELSE LET c == PipeCall(st.fdt, Len(st.created) + 1)
         IN CreateLinkPipes([fdt     |-> c.fdt,
                             pipefds |-> [st.pipefds EXCEPT ![i % 2] = c.pair],
                             created |-> Append(st.created, c.pair),
                             failed  |-> FALSE],
                            i + 1, n, fail_at)

RECURSIVE ApplyCloses(_, _)
\* the descriptor table after close(fd) for each fd of the sequence; close
\* of a descriptor that is not open fails with EBADF and changes nothing
ApplyCloses(fdt, fds) ==
    IF fds = <<>> THEN fdt
    ELSE ApplyCloses([fd \in FdNumbers |->
                         IF fd = fds[1] THEN ClosedFd ELSE fdt[fd]], Tail(fds))

RECURSIVE LinkCloses(_, _, _)
\* for (j = 0; j < num_commands - 1; j++)
\*     { close(pipefds[j % 2][0]); close(pipefds[j % 2][1]); }
LinkCloses(pfds, j, n) ==
    IF j >= n - 1 THEN <<>>
    ELSE <<pfds[j % 2].r, pfds[j % 2].w>> \o LinkCloses(pfds, j + 1, n)

\* the child's own standard input, inherited from the shell
InheritedStdin == FdEntry(0, "tty")

\* what stage i (0-based) of n dup2's onto its stdin and stdout/stderr
StageIO(i, n, fdt, pfds, fin) ==
    [in  |-> IF i > 0 THEN fdt[pfds[(i - 1) % 2].r] ELSE InheritedStdin,
     out |-> IF i < n - 1 THEN fdt[pfds[i % 2].w] ELSE fdt[fin.w]]

UnbornAll == {p \in DOMAIN procs : procs[p] = "unborn"}
RECURSIVE LowestN(_, _)
\* the n smallest elements of S, in increasing order
LowestN(S, n) ==
    IF n = 0 THEN <<>> ELSE <<MinOf(S)>> \o LowestN(S \ {MinOf(S)}, n - 1)

SeqToSet(q) == {q[i] : i \in 1..Len(q)}

\* descriptors open from earlier calls are not pipes of this call
Relabel(fdt) ==
    [fd \in FdNumbers |-> IF fdt[fd] = ClosedFd THEN ClosedFd ELSE FdEntry(0, "leaked")]

\* Step 9 up to the monitoring loop: create the pipes, fork the stages,
\* close the parent's copies.  pipe_fail_at: 0 when the final pipe() fails,
\* i when the i-th link pipe() fails, -1 for none; fork_fail_at: the 0-based
\* stage whose fork() fails, -1 for none
PipeLaunch(line, pipe_fail_at, fork_fail_at) ==
    LET n == NumCommands(line)
        fdt0 == Relabel(fdtable)
        fin_fails == PipeCallFails(fdt0, pipe_fail_at = 0)
        fin == PipeCall(fdt0, 1)
        st == CreateLinkPipes([fdt |-> fin.fdt, pipefds |-> [i \in 0..1 |-> NoPipe],
                               created |-> <<fin.pair>>, failed |-> FALSE],
                              0, n, pipe_fail_at)
        new == LowestN(UnbornAll, n)
        nforked == IF fork_fail_at \in 0..(n - 1) THEN fork_fail_at ELSE n
        io == [k \in 1..nforked |-> StageIO(k - 1, n, st.fdt, st.pipefds, fin.pair)]
    IN /\ pc = "idle"
       /\ Len(StrTokAll(line, 124)) >= 2
       /\ Cardinality(UnbornAll) >= n
       /\ current_command' = line
       /\ kills' = IF ~fin_fails /\ ~st.failed /\ nforked < n
                   THEN {KillRec(new[k], "SIGKILL", "main") : k \in 1..nforked}
                   ELSE {}
       /\ IF fin_fails
          THEN /\ emitted' = <<Msg("pipe_failed", 0, "", <<>>)>>
               /\ fdtable' = fdt0
               /\ created' = <<>>
               /\ closes' = <<>>
               /\ UNCHANGED <<pc, procs, foreground_pid, timeout_counter, pipefds,
                              final_output_pipe, pids, num_commands, stage_io,
                              all_children_exited>>
          ELSE IF st.failed
          THEN LET cl == <<fin.pair.r, fin.pair.w>>
               IN /\ emitted' = <<Msg("pipe_failed", 0, "", <<>>)>>
                  /\ fdtable' = ApplyCloses(st.fdt, cl)
                  /\ created' = st.created
                  /\ closes' = cl
                  /\ UNCHANGED <<pc, procs, foreground_pid, timeout_counter, pipefds,
                                 final_output_pipe, pids, num_commands, stage_io,
                                 all_children_exited>>
          ELSE IF nforked < n
          THEN LET cl == LinkCloses(st.pipefds, 0, n) \o <<fin.pair.r, fin.pair.w>>
               IN /\ emitted' = <<Msg("fork_failed", 0, "", <<>>)>>
                  /\ procs' = [p \in DOMAIN procs |->
                                  IF \E k \in 1..nforked : new[k] = p
                                  THEN "signaled" ELSE procs[p]]
                  /\ fdtable' = ApplyCloses(st.fdt, cl)
                  /\ created' = st.created
                  /\ closes' = cl
                  /\ stage_io' = io
                  /\ UNCHANGED <<pc, foreground_pid, timeout_counter, pipefds,
                                 final_output_pipe, pids, num_commands,
                                 all_children_exited>>
          ELSE LET cl == LinkCloses(st.pipefds, 0, n) \o <<fin.pair.w>>
               IN /\ emitted' = <<>>
                  /\ procs' = [p \in DOMAIN procs |->
                                  IF p \in SeqToSet(new) THEN "running" ELSE procs[p]]
                  /\ fdtable' = ApplyCloses(st.fdt, cl)
                  /\ created' = st.created
                  /\ closes' = cl
                  /\ stage_io' = io
                  /\ pipefds' = st.pipefds
                  /\ final_output_pipe' = fin.pair
                  /\ pids' = new
                  /\ num_commands' = n
                  /\ foreground_pid' = new[n]
                  /\ timeout_counter' = 0
                  /\ all_children_exited' = 0
                  /\ pc' = "pipe_collect"
       /\ UNCHANGED <<bg_processes, job_counter, signal_received, which_signal, pid,
                      child_exited, found_job_index, target_pid, target_job_id>>
       /\ UNCHANGED <<assigned_ids, histvars, othervars>>

\* one iteration of the pipeline's monitoring loop; rd is the outcome of
\* the non-blocking read of the final pipe
PipeLoop(rd) ==
    /\ pc = "pipe_collect"
    /\ IF rd \in {"overflow", "error"}
       THEN /\ emitted' = IF rd = "overflow"
                          THEN Append(emitted, Msg("truncated", 0, "", <<>>))
                          ELSE emitted
            /\ pc' = "pipe_post"
            /\ UNCHANGED <<procs, all_children_exited, timeout_counter>>
       ELSE \* waitpid(pids[i], &status, WNOHANG) for each stage
            LET live == \E k \in 1..Len(pids) : IsLiveChild(procs[pids[k]])
            IN /\ procs' = [p \in DOMAIN procs |->
                               IF p \in SeqToSet(pids) /\ IsZombie(procs[p])
                               THEN "gone" ELSE procs[p]]
               /\ all_children_exited' = IF live THEN 0 ELSE 1
               /\ timeout_counter' = timeout_counter + 1
               /\ pc' = IF live /\ timeout_counter + 1 < MAX_PIPE_TIMEOUT
                        THEN "pipe_collect" ELSE "pipe_post"
               /\ emitted' = emitted
    /\ UNCHANGED <<foreground_pid, current_command, bg_processes, job_counter,
                   signal_received, which_signal, kills, pid, child_exited,
                   found_job_index, target_pid, target_job_id>>
    /\ UNCHANGED <<fdtable, created, closes, pipefds, final_output_pipe, pids,
                   num_commands, stage_io>>
    /\ UNCHANGED <<assigned_ids, histvars, othervars>>

\* the pids a pipeline timeout sends SIGKILL to
PipeTimeoutTargets_LastOnly == {pids[Len(pids)]}

PipeTimeoutTargets == SeqToSet(pids)

\* after the loop: timeout kill of every stage, residual read, close of the
\* read end of the final pipe
PipePost ==
    /\ pc = "pipe_post"
    /\ LET timed == timeout_counter >= MAX_PIPE_TIMEOUT
       IN /\ emitted' = IF timed
                        THEN Append(emitted, Msg("pipeline_timed_out", 0, "", <<>>))
                        ELSE emitted
          /\ kills' = IF timed
                      THEN kills \cup {KillRec(p, "SIGKILL", "main") : p \in PipeTimeoutTargets}
                      ELSE kills
          /\ procs' = IF timed
                      THEN [p \in DOMAIN procs |->
                               IF p \in PipeTimeoutTargets
                               THEN CHOOSE st \in SigOutcomes(procs[p], "SIGKILL") : TRUE
                               ELSE procs[p]]
                      ELSE procs
    /\ closes' = Append(closes, final_output_pipe.r)
    /\ fdtable' = ApplyCloses(fdtable, <<final_output_pipe.r>>)
    /\ pc' = "pipe_wait"
    /\ UNCHANGED <<foreground_pid, current_command, bg_processes, job_counter,
                   signal_received, which_signal, pid, child_exited, timeout_counter,
                   found_job_index, target_pid, target_job_id>>
    /\ UNCHANGED <<created, pipefds, final_output_pipe, pids, num_commands, stage_io,
                   all_children_exited>>
    /\ UNCHANGED <<assigned_ids, histvars, othervars>>

\* waitpid(pids[i], NULL, 0) for every stage returns once the stage has
\* terminated (or is not a child any more); then the result is shown and
\* handle_enter_key clears the line
PipeWaitAll ==
    /\ pc = "pipe_wait"
    /\ \A k \in 1..Len(pids) : ~IsLiveChild(procs[pids[k]])
    /\ procs' = [p \in DOMAIN procs |->
                    IF p \in SeqToSet(pids) /\ IsZombie(procs[p]) THEN "gone" ELSE procs[p]]
    /\ foreground_pid' = -1
    /\ emitted' = Append(emitted, Msg("result", 0, "", <<>>))
    /\ current_command' = <<>>
    /\ pc' = "idle"
    /\ pids' = <<>>
    /\ num_commands' = 0
    /\ pipefds' = [i \in 0..1 |-> NoPipe]
    /\ final_output_pipe' = NoPipe
    /\ all_children_exited' = 0
    /\ timeout_counter' = 0
    /\ UNCHANGED <<bg_processes, job_counter, signal_received, which_signal, kills,
                   pid, child_exited, found_job_index, target_pid, target_job_id>>
    /\ UNCHANGED <<fdtable, created, closes, stage_io>>
    /\ UNCHANGED <<assigned_ids, histvars, othervars>>

PipePids == 1..MaxPipePids

\* main() after initialize_tab, with MaxPipePids pids left to hand out
PipeInit ==
    /\ pc = "idle"
    /\ foreground_pid = -1
    /\ current_command = <<>>
    /\ bg_processes = <<>>
    /\ job_counter = 0
    /\ signal_received = 0
    /\ which_signal = NoSignal
    /\ procs = [p \in PipePids |-> "unborn"]
    /\ kills = {}
    /\ pid = -1
    /\ child_exited = 0
    /\ timeout_counter = 0
    /\ found_job_index = -1
    /\ target_pid = -1
    /\ target_job_id = -1
    /\ emitted = <<>>
    /\ assigned_ids = {}
    /\ HistInit
    /\ ExtInit

PipeFailPoints == -1..(MAX_PIPE_COMMANDS - 2)
ForkFailPoints == -1..(MAX_PIPE_COMMANDS - 2)

NextPipe ==
    \/ handle_sigint
    \/ handle_sigtstp
    \/ \E p \in PipePids : ChildExit(p)
    \/ \E line \in PipeLines, pf \in PipeFailPoints, ff \in ForkFailPoints :
          PipeLaunch(line, pf, ff)
    \/ \E rd \in ReadOutcomes : PipeLoop(rd)
    \/ PipePost
    \/ PipeWaitAll
    \/ MainLoopSignals

PipeSpec == PipeInit /\ [][NextPipe]_vars

PipeTypeOK ==
    /\ pc \in {"idle", "collect", "post", "return", "pipe_collect", "pipe_post", "pipe_wait"}
    /\ procs \in [PipePids -> ProcStates]
    /\ fdtable \in [FdNumbers -> [pipe : -1..MAX_PIPE_COMMANDS, end : {"closed", "r", "w", "leaked"}]]
    /\ Len(pids) = num_commands
    /\ num_commands <= MAX_PIPE_COMMANDS - 1

\* ---------------------------------------------------------------------
\* Claims about the pipeline
\* ---------------------------------------------------------------------
\* the stages that write to / read from pipe k
Writers(k) == {i \in 1..Len(stage_io) : stage_io[i].out = FdEntry(k, "w")}
Readers(k) == {i \in 1..Len(stage_io) : stage_io[i].in = FdEntry(k, "r")}

\* C11: every forked stage writes to the write end of a pipe no other stage
\* writes to; every stage but the first reads from the read end of the pipe
\* the stage before it writes to, and no other stage reads that pipe; the
\* first stage keeps the shell's stdin and the last stage writes to the
\* capture pipe (the first pipe the call creates).
C11_PipelineWiring ==
    \A i \in 1..Len(stage_io) :
        /\ stage_io[i].out.end = "w"
        /\ Writers(stage_io[i].out.pipe) = {i}
        /\ (i = 1) => stage_io[i].in = InheritedStdin
        /\ (i > 1) => /\ stage_io[i].in.end = "r"
                      /\ stage_io[i].in.pipe = stage_io[i - 1].out.pipe
                      /\ Readers(stage_io[i].in.pipe) = {i}
        /\ (pc = "pipe_collect" /\ i = num_commands) => stage_io[i].out = FdEntry(1, "w")

\* C12: once execute_command has returned from a pipeline, neither end of
\* any pipe the call created is still open in the shell, and no descriptor
\* number was passed to close() more than once during the call.
C12_PipeDescriptorsClosedOnce ==
    pc = "idle" =>
        /\ \A k \in 1..Len(created) :
              fdtable[created[k].r] = ClosedFd /\ fdtable[created[k].w] = ClosedFd
        /\ \A i, j \in 1..Len(closes) : i # j => closes[i] # closes[j]

\* the number of stages the user typed
StagesTyped(line) == Len(StrTokAll(line, 124))

\* C13: a pipeline is never silently truncated: when no pipe() or fork()
\* fails, a line of N stages within the limit starts exactly N children, one
\* per stage in order, and a line of more stages than the limit is answered
\* with an error and starts no process.
C13_NoSilentTruncation ==
    [][\A line \in PipeLines :
          PipeLaunch(line, -1, -1) =>
              IF StagesTyped(line) <= MAX_PIPE_COMMANDS
              THEN pc' = "pipe_collect" =>
                      /\ Len(pids') = StagesTyped(line)
                      /\ \A k \in 1..Len(pids') : procs[pids'[k]] = "unborn"
                      /\ \A k \in 1..(Len(pids') - 1) : pids'[k] < pids'[k + 1]
              ELSE /\ pc' = "idle"
                   /\ emitted' # <<>>
                   /\ procs' = procs]_vars

\* ---------------------------------------------------------------------
\* The output collector of both paths of execute_command
\* ---------------------------------------------------------------------
NextCollect ==
    \/ handle_sigint
    \/ handle_sigtstp
    \/ \E p \in Pids : ChildExit(p)
    \/ \E line \in LaunchCommands, fork_ok \in BOOLEAN : ExecLaunch(line, fork_ok)
    \/ \E key \in Keys, rd \in ReadOutcomes : ExecLoop(key, rd)
    \/ ExecPost
    \/ ExecReturn
    \/ \E line \in PipeLines, pf \in PipeFailPoints, ff \in ForkFailPoints :
          PipeLaunch(line, pf, ff)
    \/ \E rd \in ReadOutcomes : PipeLoop(rd)
    \/ PipePost
    \/ PipeWaitAll
    \/ MainLoopSignals

CollectSpec == Init /\ [][NextCollect]_vars

HasMsg(q, kind) == \E i \in 1..Len(q) : q[i].kind = kind
Reaped(st) == ~IsLiveChild(st) /\ ~IsZombie(st)

\* C15: the collector never polls beyond its budget; when the budget is
\* exhausted it reports the timeout and sends SIGKILL to every tracked
\* process that is still running (the one child of a single command, every
\* stage of a pipeline), after which no tracked process is running; the
\* final waits then return, and on return every tracked process is reaped
\* and the foreground slot is empty.
C15_TimeoutKillsAndReturns ==
    /\ [](pc = "collect" => timeout_counter < MAX_TIMEOUT)
    /\ [](pc = "pipe_collect" => timeout_counter < MAX_PIPE_TIMEOUT)
    /\ [][(ExecPost /\ timeout_counter >= MAX_TIMEOUT) =>
             /\ HasMsg(emitted', "timed_out")
             /\ IsLiveChild(procs[pid]) => KillRec(pid, "SIGKILL", "main") \in kills'
             /\ Reaped(procs'[pid])]_vars
    /\ [][ExecReturn => (foreground_pid' = -1 /\ pc' = "idle")]_vars
    /\ [][(PipePost /\ timeout_counter >= MAX_PIPE_TIMEOUT) =>
             /\ HasMsg(emitted', "pipeline_timed_out")
             /\ \A k \in 1..Len(pids) :
                   /\ IsLiveChild(procs[pids[k]]) =>
                         KillRec(pids[k], "SIGKILL", "main") \in kills'
                   /\ ~IsLiveChild(procs'[pids[k]])]_vars
    /\ []((pc = "pipe_wait" /\ timeout_counter >= MAX_PIPE_TIMEOUT) => ENABLED PipeWaitAll)
    /\ [][PipeWaitAll =>
             /\ foreground_pid' = -1 /\ pc' = "idle"
             /\ \A k \in 1..Len(pids) : Reaped(procs'[pids[k]])]_vars

\* a pipeline ran out of budget with both stages still running, both were
\* killed and reaped, and execute_command has returned
C15_Witness ==
    /\ pc = "idle"
    /\ foreground_pid = -1
    /\ HasMsg(emitted, "pipeline_timed_out")
    /\ HasMsg(emitted, "result")
    /\ Cardinality({p \in Pids : KillRec(p, "SIGKILL", "main") \in kills
                                  /\ procs[p] = "gone"}) >= 2

\* ---------------------------------------------------------------------
\* execute_command: accumulation of the output into full_output
\* (the same code in the single-command and in the pipeline path)
\* ---------------------------------------------------------------------
\* the bytes read() can return now: at least one, at most sizeof(buffer) - 1,
\* at most what the command has still to deliver
ReadSizes == 1..(IF Len(stream) - stream_pos < READ_BUFFER_SIZE - 1
                 THEN Len(stream) - stream_pos ELSE READ_BUFFER_SIZE - 1)
\* buffer[0 .. bytes_read - 1] after read()
Chunk(bytes_read) == SubSeq(stream, stream_pos + 1, stream_pos + bytes_read)
\* if (full_output_len + bytes_read < OUTPUT_BUFFER_SIZE - 1)
Fits(bytes_read) == Len(full_output) + bytes_read < OUTPUT_BUFFER_SIZE - 1

\* the parent starts collecting: full_output = {0}, full_output_len = 0;
\* the command will write total bytes, numbered by their position
CaptureStart(total) ==
    /\ cap_pc = "idle"
    /\ stream' = [i \in 1..total |-> i]
    /\ stream_pos' = 0
    /\ full_output' = <<>>
    /\ cap_warned' = FALSE
    /\ cap_pc' = "loop"
    /\ UNCHANGED <<jobvars, assigned_ids, histvars, pipevars, mwvars, cwd, pipe_bytes, status>>

\* an iteration of the monitoring loop whose read() returns bytes_read > 0
CaptureLoopRead(bytes_read) ==
    /\ cap_pc = "loop"
    /\ bytes_read \in ReadSizes
    /\ stream_pos' = stream_pos + bytes_read
    /\ IF Fits(bytes_read)
       THEN /\ full_output' = full_output \o Chunk(bytes_read)
            /\ UNCHANGED <<cap_warned, cap_pc>>
       ELSE /\ cap_warned' = TRUE
            /\ cap_pc' = "drain"
            /\ UNCHANGED full_output
    /\ UNCHANGED stream
    /\ UNCHANGED <<jobvars, assigned_ids, histvars, pipevars, mwvars, cwd, pipe_bytes, status>>

\* the loop ends for another reason: the child exited, the budget ran out,
\* a key or signal broke it, or read() failed
CaptureLoopEnd ==
    /\ cap_pc = "loop"
    /\ cap_pc' = "drain"
    /\ UNCHANGED <<stream, stream_pos, full_output, cap_warned>>
    /\ UNCHANGED <<jobvars, assigned_ids, histvars, pipevars, mwvars, cwd, pipe_bytes, status>>

\* "Read any remaining data": an iteration of while (read(...) > 0)
CaptureDrainRead(bytes_read) ==
    /\ cap_pc = "drain"
    /\ bytes_read \in ReadSizes
    /\ stream_pos' = stream_pos + bytes_read
    /\ full_output' = IF Fits(bytes_read) THEN full_output \o Chunk(bytes_read)
                      ELSE full_output
    /\ UNCHANGED <<stream, cap_warned, cap_pc>>
    /\ UNCHANGED <<jobvars, assigned_ids, histvars, pipevars, mwvars, cwd, pipe_bytes, status>>

\* read() returns 0 or -1 (EAGAIN: the descriptor is non-blocking): the
\* remaining-data loop ends and full_output is what gets displayed
CaptureDrainEnd ==
    /\ cap_pc = "drain"
    /\ cap_pc' = "idle"
    /\ UNCHANGED <<stream, stream_pos, full_output, cap_warned>>
    /\ UNCHANGED <<jobvars, assigned_ids, histvars, pipevars, mwvars, cwd, pipe_bytes, status>>

NextCapture ==
    \/ \E total \in 0..MaxStream : CaptureStart(total)
    \/ \E n \in 1..(READ_BUFFER_SIZE - 1) : CaptureLoopRead(n)
    \/ CaptureLoopEnd
    \/ \E n \in 1..(READ_BUFFER_SIZE - 1) : CaptureDrainRead(n)
    \/ CaptureDrainEnd

CaptureSpec == Init /\ [][NextCapture]_vars

\* C14: the captured text is always a contiguous prefix of the byte stream
\* the command wrote, never longer than the buffer's capacity: once a chunk
\* has been dropped for lack of room, no later byte gets into the captured
\* text, in the monitoring loop or in the remaining-data loop.
C14_CapturedIsPrefix ==
    /\ Len(full_output) <= OUTPUT_BUFFER_SIZE - 1
    /\ Len(full_output) <= Len(stream)
    /\ full_output = SubSeq(stream, 1, Len(full_output))

\* ---------------------------------------------------------------------
\* multiWatch: handle_multiwatch_command, monitor_multiwatch_processes,
\* cleanup_multiwatch
\* ---------------------------------------------------------------------
\* the job variables multiWatch never touches
mwjobrest == <<foreground_pid, current_command, bg_processes, job_counter, pid,
               child_exited, timeout_counter, found_job_index, target_pid,
               target_job_id, emitted>>

\* what can happen to one command of the list in Step 4 of
\* handle_multiwatch_command
StartOutcomes == {"ok", "create_failed", "fork_failed", "open_failed"}
Forks(o) == o \in {"ok", "open_failed"}

\* Steps 3-5 of handle_multiwatch_command for n parsed commands
MwStart(n, outcomes) ==
    LET nforks == Cardinality({i \in 1..n : Forks(outcomes[i])})
        new == LowestN(UnbornAll, nforks)
        child(i) == new[Cardinality({j \in 1..i : Forks(outcomes[j])})]
        successful_process_starts == Cardinality({i \in 1..n : outcomes[i] = "ok"})
    IN /\ pc = "idle"
       /\ Cardinality(UnbornAll) >= nforks
       /\ multiwatch_count' = n
       /\ multiwatch_mode' = 1
       /\ mw_started' = 1
       /\ multiwatch_processes' =
             [i \in MwIndexes |->
                 IF i > n THEN multiwatch_processes[i]
                 ELSE IF outcomes[i] = "ok" THEN MwEntry(child(i), 1, i)
                 ELSE IF outcomes[i] = "open_failed" THEN MwEntry(child(i), 0, -1)
                 ELSE [multiwatch_processes[i] EXCEPT !.active = 0]]
       /\ temp_files' =
             [i \in MwIndexes |->
                 IF i > n \/ outcomes[i] = "create_failed" THEN NoFile
                 ELSE IF Forks(outcomes[i]) THEN TempFile(TRUE, 0, child(i))
                 ELSE TempFile(TRUE, 0, -1)]
       /\ procs' = [p \in DOMAIN procs |->
                       IF p \in SeqToSet(new) THEN "running" ELSE procs[p]]
       /\ fd_pos' = [i \in MwIndexes |-> 0]
       /\ mw_shown' = [i \in MwIndexes |-> <<>>]
       /\ mw_finished' = [i \in MwIndexes |-> FALSE]
       /\ current_attempt' = 0
       /\ active_process_count' = n
       /\ process_index' = 0
       /\ IF successful_process_starts = 0
          THEN /\ pc' = "mw_cleanup"
               /\ cleanup_from' = "nostart"
               /\ cleanup_calls' = 1
          ELSE /\ pc' = "mw_monitor"
               /\ cleanup_from' = "none"
               /\ cleanup_calls' = 0
       /\ kills' = {}
       /\ UNCHANGED <<signal_received, which_signal, mwjobrest>>
       /\ UNCHANGED <<assigned_ids, histvars, pipevars, capvars, cwd, status>>

\* a watched command writes one more byte to its temporary file
MwWrite(i) ==
    /\ temp_files[i].writer \in DOMAIN procs
    /\ procs[temp_files[i].writer] = "running"
    /\ temp_files[i].len < MaxOutput
    /\ temp_files' = [temp_files EXCEPT ![i].len = @ + 1]
    /\ UNCHANGED <<multiwatch_processes, multiwatch_count, multiwatch_mode, fd_pos,
                   mw_shown, mw_finished, process_index, cleanup_from, cleanup_calls,
                   mw_started, current_attempt, active_process_count>>
    /\ UNCHANGED <<jobvars, assigned_ids, histvars, pipevars, capvars, cwd, status>>

\* bytes a..b of a command's output
Bytes(a, b) == [k \in 1..(b - a + 1) |-> a + k - 1]
\* read(fd, buf, sizeof(buf) - 1) on a regular file: the bytes between the
\* offset and the end of the file, at most sizeof(buf) - 1; 0 at the end
ReadCount(len, pos) ==
    IF len - pos < MULTIWATCH_BUFFER_SIZE - 1 THEN len - pos
    ELSE MULTIWATCH_BUFFER_SIZE - 1

\* where a cancelled monitor goes when cleanup_multiwatch has returned
AfterCancelCleanup_FallThrough == "mw_final"

AfterCancelCleanup == "idle"

\* the loop ends as soon as the attempts are used up
LoopEnds_AttemptsOnly(count, attempts) == attempts >= MAX_READ_ATTEMPTS

\* the while condition and Step 7: the loop ends when no process is active
\* and the attempts are used up
LoopEnds(count, attempts) == count = 0 /\ attempts >= MAX_READ_ATTEMPTS

\* one iteration of the loop of monitor_multiwatch_processes.  Step 3 reads
\* nothing: it runs only when no read of Step 2 returned data, and then
\* Step 2 has closed every descriptor it read (end of file)
MwMonitor(key) ==
    LET Listed(i) == i <= multiwatch_count
        e(i) == multiwatch_processes[i]
        \* Step 2
        Readable(i) == Listed(i) /\ e(i).active = 1 /\ e(i).fd # -1
        n2(i) == ReadCount(temp_files[i].len, fd_pos[i])
        shown2 == [i \in MwIndexes |->
                      IF Readable(i) /\ n2(i) > 0
                      THEN mw_shown[i] \o Bytes(fd_pos[i] + 1, fd_pos[i] + n2(i))
                      ELSE mw_shown[i]]
        pos2 == [i \in MwIndexes |-> IF Readable(i) THEN fd_pos[i] + n2(i) ELSE fd_pos[i]]
        fd2(i) == IF Readable(i) /\ n2(i) = 0 THEN -1 ELSE e(i).fd
        \* Step 4
        Checked(i) == Listed(i) /\ e(i).active = 1
        Finished(i) == Checked(i) /\ IsZombie(procs[e(i).pid])
        Running(i) == Checked(i) /\ IsLiveChild(procs[e(i).pid])
        nfinal(i) == ReadCount(temp_files[i].len, 0)
        count == Cardinality({i \in MwIndexes : Running(i)})
        cancel == key = "CtrlC" \/ (signal_received = 1 /\ which_signal = "SIGINT")
    IN /\ pc = "mw_monitor"
       /\ mw_shown' = [i \in MwIndexes |->
                          IF Finished(i) /\ temp_files[i].exists /\ nfinal(i) > 0
                          THEN shown2[i] \o Bytes(1, nfinal(i)) ELSE shown2[i]]
       /\ mw_finished' = [i \in MwIndexes |-> mw_finished[i] \/ Finished(i)]
       /\ fd_pos' = pos2
       /\ multiwatch_processes' =
             [i \in MwIndexes |->
                 IF Checked(i) /\ ~Running(i) THEN MwEntry(e(i).pid, 0, -1)
                 ELSE MwEntry(e(i).pid, e(i).active, fd2(i))]
       /\ procs' = [p \in DOMAIN procs |->
                       IF \E i \in MwIndexes : Finished(i) /\ e(i).pid = p
                       THEN "gone" ELSE procs[p]]
       /\ active_process_count' = count
       \* current_attempt++; only compared with max_read_attempts, so the
       \* count stops there
       /\ current_attempt' = IF current_attempt < MAX_READ_ATTEMPTS
                             THEN current_attempt + 1 ELSE current_attempt
       /\ IF cancel
          THEN /\ pc' = "mw_cleanup"
               /\ cleanup_from' = "cancel"
               /\ cleanup_calls' = cleanup_calls + 1
               /\ process_index' = 0
               /\ signal_received' = IF key = "CtrlC" THEN signal_received ELSE 0
               /\ which_signal' = IF key = "CtrlC" THEN which_signal ELSE NoSignal
          ELSE /\ pc' = IF LoopEnds(count, current_attempt + 1)
                        THEN "mw_final" ELSE "mw_monitor"
               /\ UNCHANGED <<cleanup_from, cleanup_calls, process_index,
                              signal_received, which_signal>>
       /\ UNCHANGED <<multiwatch_count, multiwatch_mode, temp_files, mw_started>>
       /\ UNCHANGED <<kills, mwjobrest>>
       /\ UNCHANGED <<assigned_ids, histvars, pipevars, capvars, cwd, status>>

\* after the loop: "Final cleanup and status update" calls cleanup_multiwatch
MwFinal ==
    /\ pc = "mw_final"
    /\ pc' = "mw_cleanup"
    /\ cleanup_from' = "final"
    /\ cleanup_calls' = cleanup_calls + 1
    /\ process_index' = 0
    /\ UNCHANGED <<multiwatch_processes, multiwatch_count, multiwatch_mode, temp_files,
                   fd_pos, mw_shown, mw_finished, mw_started, current_attempt,
                   active_process_count>>
    /\ UNCHANGED <<signal_received, which_signal, procs, kills, mwjobrest>>
    /\ UNCHANGED <<assigned_ids, histvars, pipevars, capvars, cwd, status>>

\* cleanup_resources, when the window is closed: cleanup_multiwatch is
\* called once more
MwShutdown ==
    /\ pc = "idle"
    /\ pc' = "mw_cleanup"
    /\ cleanup_from' = "shutdown"
    /\ process_index' = 0
    /\ UNCHANGED <<multiwatch_processes, multiwatch_count, multiwatch_mode, temp_files,
                   fd_pos, mw_shown, mw_finished, mw_started, current_attempt,
                   active_process_count, cleanup_calls>>
    /\ UNCHANGED <<signal_received, which_signal, procs, kills, mwjobrest>>
    /\ UNCHANGED <<assigned_ids, histvars, pipevars, capvars, cwd, status>>

\* the shell's own process group.  A watched child is forked without
\* setpgid or setsid, so it stays in the group of the shell
ShellPgid == 0
Pgid(p) == ShellPgid
\* the processes kill(-g, sig) signals: the live members of process group g
GroupMembers(g) == {p \in DOMAIN procs : IsLiveChild(procs[p]) /\ Pgid(p) = g}
\* the process table after kill(-g, sig)
KillGroup(g, sig) ==
    {f \in [DOMAIN procs -> ProcStates] :
        \A p \in DOMAIN procs :
            f[p] \in (IF p \in GroupMembers(g) THEN SigOutcomes(procs[p], sig)
                      ELSE {procs[p]})}

\* the entry cleanup_multiwatch is at
CleanupEntry == multiwatch_processes[process_index + 1]

\* Steps 4 and 5 of cleanup_multiwatch for the current entry, and the next
\* iteration of its for loop
FinishEntry ==
    /\ multiwatch_processes' =
          [multiwatch_processes EXCEPT ![process_index + 1] = MwEntry(@.pid, 0, -1)]
    /\ temp_files' = [temp_files EXCEPT ![process_index + 1].exists = FALSE]
    /\ process_index' = process_index + 1
    /\ pc' = "mw_cleanup"

\* cleanup_multiwatch: the loop head and Step 1 (SIGTERM to the group)
MwCleanupTerm ==
    /\ pc = "mw_cleanup"
    /\ process_index < multiwatch_count
    /\ IF CleanupEntry.active = 1
       THEN /\ kills' = kills \cup {KillRec(-CleanupEntry.pid, "SIGTERM", "cleanup")}
            /\ procs' \in KillGroup(CleanupEntry.pid, "SIGTERM")
            /\ pc' = "mw_grace"
            /\ UNCHANGED process_index
       ELSE /\ process_index' = process_index + 1
            /\ UNCHANGED <<pc, kills, procs>>
    /\ UNCHANGED <<multiwatch_processes, multiwatch_count, multiwatch_mode, temp_files,
                   fd_pos, mw_shown, mw_finished, cleanup_from, cleanup_calls,
                   mw_started, current_attempt, active_process_count>>
    /\ UNCHANGED <<signal_received, which_signal, mwjobrest>>
    /\ UNCHANGED <<assigned_ids, histvars, pipevars, capvars, cwd, status>>

\* Steps 2 and 3: after the grace period the child is reaped if it has
\* terminated; if it is still running SIGKILL goes to the group
MwCleanupGrace ==
    /\ pc = "mw_grace"
    /\ IF IsLiveChild(procs[CleanupEntry.pid])
       THEN /\ kills' = kills \cup {KillRec(-CleanupEntry.pid, "SIGKILL", "cleanup")}
            /\ procs' \in KillGroup(CleanupEntry.pid, "SIGKILL")
            /\ pc' = "mw_block"
            /\ UNCHANGED <<multiwatch_processes, temp_files, process_index>>
       ELSE /\ procs' = [procs EXCEPT ![CleanupEntry.pid] =
                            IF IsZombie(@) THEN "gone" ELSE @]
            /\ FinishEntry
            /\ UNCHANGED kills
    /\ UNCHANGED <<multiwatch_count, multiwatch_mode, fd_pos, mw_shown, mw_finished,
                   cleanup_from, cleanup_calls, mw_started, current_attempt,
                   active_process_count>>
    /\ UNCHANGED <<signal_received, which_signal, mwjobrest>>
    /\ UNCHANGED <<assigned_ids, histvars, pipevars, capvars, cwd, status>>

\* waitpid(process_pid, &termination_status, 0) returns: the child has
\* terminated
MwCleanupBlock ==
    /\ pc = "mw_block"
    /\ ~IsLiveChild(procs[CleanupEntry.pid])
    /\ procs' = [procs EXCEPT ![CleanupEntry.pid] = IF IsZombie(@) THEN "gone" ELSE @]
    /\ FinishEntry
    /\ UNCHANGED <<multiwatch_count, multiwatch_mode, fd_pos, mw_shown, mw_finished,
                   cleanup_from, cleanup_calls, mw_started, current_attempt,
                   active_process_count>>
    /\ UNCHANGED <<signal_received, which_signal, kills, mwjobrest>>
    /\ UNCHANGED <<assigned_ids, histvars, pipevars, capvars, cwd, status>>

\* the end of cleanup_multiwatch and what its caller does next
MwCleanupReturn ==
    /\ pc = "mw_cleanup"
    /\ process_index >= multiwatch_count
    /\ multiwatch_count' = 0
    /\ IF cleanup_from = "shutdown"
       THEN pc' = "shutdown" /\ UNCHANGED multiwatch_mode
       ELSE /\ multiwatch_mode' = 0
            /\ pc' = IF cleanup_from = "cancel" THEN AfterCancelCleanup ELSE "idle"
    /\ UNCHANGED <<multiwatch_processes, temp_files, fd_pos, mw_shown, mw_finished,
                   process_index, cleanup_from, cleanup_calls, mw_started,
                   current_attempt, active_process_count>>
    /\ UNCHANGED <<signal_received, which_signal, procs, kills, mwjobrest>>
    /\ UNCHANGED <<assigned_ids, histvars, pipevars, capvars, cwd, status>>

MwKeys == {"none", "CtrlC"}

NextMw ==
    \/ handle_sigint
    \/ handle_sigtstp
    \/ \E p \in Pids : ChildExit(p)
    \/ \E n \in MwIndexes : \E outcomes \in [1..n -> StartOutcomes] : MwStart(n, outcomes)
    \/ \E i \in MwIndexes : MwWrite(i)
    \/ \E key \in MwKeys : MwMonitor(key)
    \/ MwFinal
    \/ MwCleanupTerm
    \/ MwCleanupGrace
    \/ MwCleanupBlock
    \/ MwCleanupReturn
    \/ MwShutdown
    \/ MainLoopSignals

MwSpec == Init /\ [][NextMw]_vars

MwTypeOK ==
    /\ multiwatch_mode \in {0, 1}
    /\ multiwatch_count \in 0..MAX_MULTIWATCH_COMMANDS
    /\ process_index \in 0..MAX_MULTIWATCH_COMMANDS
    /\ cleanup_calls \in 0..2
    /\ \A i \in MwIndexes : Len(mw_shown[i]) <= 2 * MaxOutput

\* ---------------------------------------------------------------------
\* Claims about multiWatch
\* ---------------------------------------------------------------------
\* the multiWatch command has run and has returned to the caller
MwReturned == pc = "idle" /\ mw_started = 1

\* C16: when multiWatch has returned, by whatever path, none of the
\* temporary files it created exists, those of commands that finished
\* before the cleanup included.
C16_NoTempFileLeft ==
    MwReturned => \A i \in MwIndexes : ~temp_files[i].exists

\* C17: cleanup_multiwatch runs exactly once in every multiWatch that set
\* multiwatch_mode: not before the monitor is left, and once when the
\* command has returned, after which multiwatch_mode and multiwatch_count
\* are 0; a further call of cleanup_multiwatch changes neither the table,
\* the files, the processes nor these two globals.
C17_CleanupExactlyOnce ==
    /\ [](pc \in {"mw_monitor", "mw_final"} => cleanup_calls = 0)
    /\ [](pc \in {"mw_cleanup", "mw_grace", "mw_block"} /\ cleanup_from # "shutdown"
             => cleanup_calls = 1)
    /\ [](MwReturned => cleanup_calls = 1 /\ multiwatch_mode = 0 /\ multiwatch_count = 0)
    /\ [][((MwCleanupTerm \/ MwCleanupGrace \/ MwCleanupBlock \/ MwCleanupReturn)
             /\ cleanup_from = "shutdown") =>
             UNCHANGED <<multiwatch_processes, multiwatch_count, multiwatch_mode,
                         temp_files, procs, kills>>]_vars

\* a multiWatch whose cleanup had an active entry to terminate has
\* returned, and the cleanup of the shutdown has run after it
C17_Witness ==
    /\ pc = "shutdown"
    /\ mw_started = 1
    /\ cleanup_calls = 1
    /\ \E p \in Pids : KillRec(-p, "SIGTERM", "cleanup") \in kills

\* the bytes displayed for entry i
ShownSet(i) == {mw_shown[i][k] : k \in 1..Len(mw_shown[i])}

\* C18: when the completion of a watched command is reported, every byte the
\* command wrote has been displayed under its label.
C18_AllOutputBeforeCompletion ==
    \A i \in MwIndexes : mw_finished[i] => (1..temp_files[i].len) \subseteq ShownSet(i)

\* C19: in a cancelled multiWatch the process cleanup_multiwatch is waiting
\* for after SIGTERM and SIGKILL is not running any more, so the wait
\* returns; and when the command has returned no watched process is running.
C19_CancelKillsEveryProcess ==
    cleanup_from = "cancel" =>
        /\ pc = "mw_block" => ~IsLiveChild(procs[CleanupEntry.pid])
        /\ pc = "idle" => \A i \in MwIndexes :
                             temp_files[i].writer \in Pids =>
                                 ~IsLiveChild(procs[temp_files[i].writer])

\* ---------------------------------------------------------------------
\* execute_command: validation and dispatch (Steps 1 to 6)
\* ---------------------------------------------------------------------
dangerous_patterns == {
    <<59, 59>>,   \* ";;"  Sequential command execution
    <<38, 38>>,   \* "&&"  Conditional AND execution
    <<124, 124>>,   \* "||"  Conditional OR execution
    <<96>>,   \* "`"  Backtick command substitution
    <<36, 40>>,   \* "$("  Modern command substitution
    <<62, 32, 47, 100, 101, 118, 47>>,   \* "> /dev/"  Redirecting to device files
    <<62, 32, 47, 112, 114, 111, 99, 47>>,   \* "> /proc/"  Redirecting to proc filesystem
    <<124, 32, 116, 101, 101>>,   \* "| tee"  Could be used to write to protected files
    <<62, 32, 47, 101, 116, 99, 47>>,   \* "> /etc/"  Writing to system configuration
    <<62, 62, 32, 47, 101, 116, 99, 47>>,   \* ">> /etc/"  Appending to system configuration
    <<62, 32, 47, 98, 111, 111, 116, 47>>,   \* "> /boot/"  Writing to boot files
    <<115, 117, 100, 111>>,   \* "sudo"  Superuser command execution
    <<99, 104, 109, 111, 100, 32, 55, 55, 55>>,   \* "chmod 777"  Making files world-writable
    <<99, 104, 111, 119, 110, 32, 114, 111, 111, 116>>   \* "chown root"  Changing ownership to root
}

\* 1 when no dangerous pattern occurs in the command, 0 otherwise
is_safe_command(command) ==
    IF \E pattern \in dangerous_patterns : strstr(command, pattern) THEN 0 ELSE 1

StrMultiWatch == <<109, 117, 108, 116, 105, 87, 97, 116, 99, 104>>
StrCd == <<99, 100>>
StrHistory == <<104, 105, 115, 116, 111, 114, 121>>
StrJobs == <<106, 111, 98, 115>>
StrFg == <<102, 103>>
StrDot == <<46>>

\* strncmp(s, prefix, Len(prefix)) == 0
HasPrefix(s, prefix) == Len(s) >= Len(prefix) /\ SubSeq(s, 1, Len(prefix)) = prefix

RECURSIVE SkipSpaces(_)
SkipSpaces(s) == IF s # <<>> /\ s[1] = 32 THEN SkipSpaces(Tail(s)) ELSE s

RECURSIVE MwParse(_, _)
\* Step 1 of handle_multiwatch_command on the text after "multiWatch": the
\* number of quoted commands found, -1 for an unclosed quote or unquoted text
MwParse(s, command_count) ==
    IF s = <<>> \/ command_count >= MAX_MULTIWATCH_COMMANDS THEN command_count
    ELSE LET t == SkipSpaces(s)
         IN IF t = <<>> THEN command_count
            ELSE IF t[1] # 34 THEN -1
            ELSE IF ~\E j \in 2..Len(t) : t[j] = 34 THEN -1
            ELSE LET close == CHOOSE j \in 2..Len(t) :
                                  t[j] = 34 /\ \A k \in 2..(j - 1) : t[k] # 34
                     command_length == close - 2
                 IN MwParse(SubSeq(t, close + 1, Len(t)),
                            IF command_length > 0 /\ command_length < COMMAND_COPY_SIZE - 1
                            THEN command_count + 1 ELSE command_count)

\* a path of execute_command that only displays a message and returns
DispatchMessage(kind) ==
    /\ emitted' = <<Msg(kind, 0, "", <<>>)>>
    /\ UNCHANGED <<pc, foreground_pid, current_command, bg_processes, job_counter,
                   signal_received, which_signal, procs, kills, pid, child_exited,
                   timeout_counter, found_job_index, target_pid, target_job_id>>
    /\ UNCHANGED <<assigned_ids, histvars, extvars>>

\* the cd builtin: chdir(path), path "." when no argument is given
cd_builtin(args, chdir_ok) ==
    LET path == IF Len(args) > 1 THEN args[2] ELSE StrDot
    IN /\ cwd' = IF chdir_ok /\ path # StrDot THEN path ELSE cwd
       /\ emitted' = <<Msg(IF chdir_ok THEN "cd_changed" ELSE "cd_error", 0, "", path)>>
       /\ UNCHANGED <<pc, foreground_pid, current_command, bg_processes, job_counter,
                      signal_received, which_signal, procs, kills, pid, child_exited,
                      timeout_counter, found_job_index, target_pid, target_job_id>>
       /\ UNCHANGED <<assigned_ids, histvars, pipevars, capvars, mwvars, status>>

\* the history builtin only displays the stored commands
handle_history_command ==
    DispatchMessage(IF history_count = 0 THEN "no_history" ELSE "history_list")

\* the multiWatch builtin: parse, then start and monitor
handle_multiwatch_command(command) ==
    LET command_count == MwParse(SubSeq(command, 11, Len(command)), 0)
    IN IF command_count = -1 THEN DispatchMessage("multiwatch_syntax")
       ELSE IF command_count = 0 THEN DispatchMessage("multiwatch_usage")
       ELSE IF command_count > MAX_MULTIWATCH_COMMANDS
            THEN DispatchMessage("multiwatch_too_many")
       ELSE \E outcomes \in [1..command_count -> StartOutcomes] :
                MwStart(command_count, outcomes)

\* the safety check of Step 2 comes after the builtins instead of before
DispatchOrder_BuiltinsFirst == "builtins_first"

\* the order of Step 2 (security validation) and Step 4 (builtins)
DispatchOrder == "safety_first"

UnsafeLines == {
    <<115, 117, 100, 111, 32, 99>>,   \* sudo c
    <<99, 100, 32, 96, 99, 96>>,   \* cd `c`
    <<102, 103, 32, 36, 40, 99, 41>>,   \* fg $(c)
    <<106, 111, 98, 115, 38, 38, 99>>,   \* jobs&&c
    <<104, 105, 115, 116, 111, 114, 121, 124, 124, 99>>,   \* history||c
    <<99, 124, 32, 116, 101, 101, 32, 102>>,   \* c| tee f
    <<109, 117, 108, 116, 105, 87, 97, 116, 99, 104, 32, 34, 115, 117, 100, 111, 34>>   \* multiWatch "sudo"
}

SafeLines == {
    <<108, 115, 32, 45, 108, 97>>,   \* ls -la
    <<99, 100, 32, 100>>,   \* cd d
    <<106, 111, 98, 115>>,   \* jobs
    <<102, 103, 32, 49>>,   \* fg 1
    <<104, 105, 115, 116, 111, 114, 121>>,   \* history
    <<109, 117, 108, 116, 105, 87, 97, 116, 99, 104, 32, 34, 99, 34>>,   \* multiWatch "c"
    <<109, 117, 108, 116, 105, 87, 97, 116, 99, 104, 32, 99>>,   \* multiWatch c
    <<102, 103, 114, 101, 112, 32, 120>>,   \* fgrep x
    <<109, 117, 108, 116, 105, 87, 97, 116, 99, 104, 88>>   \* multiWatchX
}

DispatchLines == UnsafeLines \cup SafeLines

RECURSIVE QuotedC(_)
\* n times the argument ' "c"'
QuotedC(n) == IF n = 0 THEN <<>> ELSE <<32, 34, 99, 34>> \o QuotedC(n - 1)
\* what follows the quoted commands: nothing, ' x' or ' "c' (no closing quote)
MwTails == {<<>>, <<32, 120>>, <<32, 34, 99>>}
\* the multiWatch lines the model submits: up to MAX_MULTIWATCH_COMMANDS + 1
\* quoted commands, alone or followed by a malformed argument
MwLines ==
    {StrMultiWatch \o QuotedC(n) \o tail : n \in 0..(MAX_MULTIWATCH_COMMANDS + 1), tail \in MwTails}

\* the multibyte command execute_command receives for each line, its
\* tokens (Step 4) and the verdict of is_safe_command (Step 2)
Parsed ==
    [line \in DispatchLines \cup MwLines |->
        [command |-> wcstombs(line),
         args    |-> StrTokAll(wcstombs(line), 32),
         safe    |-> is_safe_command(wcstombs(line))]]

\* execute_command for the line the user entered, up to the point where
\* it returns or enters a monitoring loop
execute_command(line) ==
    LET command == Parsed[line].command
        args == Parsed[line].args
        unsafe == Parsed[line].safe = 0
        builtin ==
            \/ HasPrefix(command, StrMultiWatch)
            \/ (Len(args) > 0 /\ (args[1] \in {StrCd, StrHistory, StrJobs}
                                  \/ HasPrefix(args[1], StrFg)))
    IN /\ pc = "idle"
       /\ IF command = <<>> THEN DispatchMessage("empty")
          ELSE IF unsafe /\ (DispatchOrder = "safety_first" \/ ~builtin)
          THEN DispatchMessage("unsafe")
          ELSE IF Len(command) >= COMMAND_COPY_SIZE THEN DispatchMessage("too_long")
          ELSE IF HasPrefix(command, StrMultiWatch) THEN handle_multiwatch_command(command)
          ELSE IF Len(args) > 0 /\ args[1] = StrCd
          THEN \E chdir_ok \in BOOLEAN : cd_builtin(args, chdir_ok)
          ELSE IF Len(args) > 0 /\ args[1] = StrHistory THEN handle_history_command
          ELSE IF Len(args) > 0 /\ args[1] = StrJobs THEN handle_jobs_command
          ELSE IF Len(args) > 0 /\ HasPrefix(args[1], StrFg) THEN handle_fg_command(line)
          ELSE IF NumCommands(command) = 1
          THEN \E fork_ok \in BOOLEAN : ExecLaunch(line, fork_ok)
          ELSE \E pf \in -1..(NumCommands(command) - 1), ff \in -1..(NumCommands(command) - 1) :
                   PipeLaunch(line, pf, ff)

NextDispatch ==
    \/ handle_sigtstp
    \/ \E p \in Pids : ChildExit(p)
    \/ \E line \in DispatchLines : execute_command(line)
    \/ \E key \in Keys, rd \in ReadOutcomes : ExecLoop(key, rd)
    \/ ExecPost
    \/ ExecReturn
    \/ \E key \in MwKeys : MwMonitor(key)
    \/ MwFinal
    \/ MwCleanupTerm
    \/ MwCleanupGrace
    \/ MwCleanupBlock
    \/ MwCleanupReturn
    \/ MainLoopSignals

DispatchSpec == Init /\ [][NextDispatch]_vars

\* the patterns the deny-list is documented to contain:
\* "sudo", a backtick, "$(", "&&", "||"
DocumentedPatterns == {<<115, 117, 100, 111>>, <<96>>, <<36, 40>>, <<38, 38>>, <<124, 124>>}
ContainsDenied(line) == \E pattern \in DocumentedPatterns : strstr(wcstombs(line), pattern)
DeniedLines == {line \in DispatchLines : ContainsDenied(line)}
LsLa == <<108, 115, 32, 45, 108, 97>>

\* C20: execute_command answers a line that contains a documented deny-list
\* pattern with the unsafe-command error and does nothing else: no process
\* is created or signalled, no builtin runs (the working directory, the job
\* table, the multiWatch state and the display of history or jobs are
\* untouched), the foreground slot keeps its value and the shell stays
\* idle; the line "ls -la" is not rejected and goes on to fork.
C20_UnsafeLineOnlyReportsError ==
    [][/\ \A line \in DeniedLines :
             execute_command(line) =>
                /\ emitted' = <<Msg("unsafe", 0, "", <<>>)>>
                /\ UNCHANGED <<pc, procs, kills, bg_processes, job_counter,
                               foreground_pid, cwd, current_command>>
                /\ UNCHANGED <<mwvars, pipevars, histvars, assigned_ids>>
       /\ execute_command(LsLa) =>
             /\ ~HasMsg(emitted', "unsafe")
             /\ pc' = "collect" \/ HasMsg(emitted', "fork_failed")]_vars

\* an unsafe line was answered with the error while the job table held a job
C20_Witness ==
    /\ emitted = <<Msg("unsafe", 0, "", <<>>)>>
    /\ bg_job_count > 0
    /\ pc = "idle"

\* the names of the builtins
BuiltinNames == {StrCd, StrHistory, StrJobs, StrFg, StrMultiWatch}

\* the step is the parse-and-launch path of execute_command for the line
LaunchPath(line) ==
    \/ \E fork_ok \in BOOLEAN : ExecLaunch(line, fork_ok)
    \/ \E pf \in -1..MAX_PIPE_COMMANDS, ff \in -1..MAX_PIPE_COMMANDS : PipeLaunch(line, pf, ff)

\* C21: a line that passes the safety and length checks is handled as a
\* builtin, without taking the parse-and-launch path, exactly when its first
\* word is one of cd, history, jobs, fg, multiWatch; every other line (such
\* as "fgrep x" or "multiWatchX") takes the parse-and-launch path and forks.
C21_BuiltinIffExactFirstWord ==
    [][\A line \in DispatchLines :
          (/\ Parsed[line].safe = 1
           /\ Parsed[line].args # <<>>
           /\ Len(Parsed[line].command) < COMMAND_COPY_SIZE
           /\ execute_command(line))
          => (Parsed[line].args[1] \in BuiltinNames <=> ~LaunchPath(line))]_vars

\* ---------------------------------------------------------------------
\* Claims about failures while a pipeline is started
\* ---------------------------------------------------------------------
\* the children the step has forked
ForkedNow == {p \in DOMAIN procs : procs[p] = "unborn" /\ procs'[p] # "unborn"}

\* C22: when fork() fails at stage k of a pipeline (every pipe() having
\* succeeded), each of the k children forked before it is sent SIGKILL,
\* neither end of any pipe the call created stays open in the shell, the
\* fork error is reported, and the shell is idle with no foreground process
\* and the job table as it was.
C22_ForkFailureCleansUp ==
    [][\A line \in PipeLines, k \in ForkFailPoints :
          (/\ k >= 0
           /\ k < NumCommands(line)
           /\ PipeLaunch(line, -1, k)
           /\ ~HasMsg(emitted', "pipe_failed"))
          => /\ Cardinality(ForkedNow) = k
             /\ \A p \in ForkedNow : /\ KillRec(p, "SIGKILL", "main") \in kills'
                                     /\ ~IsLiveChild(procs'[p])
             /\ HasMsg(emitted', "fork_failed")
             /\ \A j \in 1..Len(created') :
                   /\ fdtable'[created'[j].r] = ClosedFd
                   /\ fdtable'[created'[j].w] = ClosedFd
             /\ pc' = "idle"
             /\ foreground_pid' = -1
             /\ bg_processes' = bg_processes]_vars

\* ---------------------------------------------------------------------
\* multiWatch driven by the typed line
\* ---------------------------------------------------------------------
NextMwLine ==
    \/ \E p \in Pids : ChildExit(p)
    \/ \E line \in MwLines : execute_command(line)
    \/ \E i \in MwIndexes : MwWrite(i)
    \/ \E key \in MwKeys : MwMonitor(key)
    \/ MwFinal
    \/ MwCleanupTerm
    \/ MwCleanupGrace
    \/ MwCleanupBlock
    \/ MwCleanupReturn

MwLineSpec == Init /\ [][NextMwLine]_vars

RECURSIVE QuotedOnly(_)
\* the argument text consists of double-quoted strings separated by spaces
QuotedOnly(s) ==
    LET t == SkipSpaces(s)
    IN IF t = <<>> THEN TRUE
       ELSE IF t[1] # 34 THEN FALSE
       ELSE IF ~\E j \in 2..Len(t) : t[j] = 34 THEN FALSE
       ELSE LET close == CHOOSE j \in 2..Len(t) :
                             t[j] = 34 /\ \A k \in 2..(j - 1) : t[k] # 34
            IN QuotedOnly(SubSeq(t, close + 1, Len(t)))

\* the lines whose argument list is malformed somewhere
MalformedMwLines ==
    {line \in MwLines : ~QuotedOnly(SubSeq(line, Len(StrMultiWatch) + 1, Len(line)))}

\* C23: a multiWatch line with an unterminated quote or an unquoted token
\* anywhere in its argument list is answered with the syntax error and
\* starts nothing: no process is forked, no temporary file is created and
\* multiwatch_mode stays 0.
C23_MalformedQuotingRejected ==
    [][\A line \in MalformedMwLines :
          execute_command(line) =>
             /\ HasMsg(emitted', "multiwatch_syntax")
             /\ procs' = procs
             /\ temp_files' = temp_files
             /\ multiwatch_mode' = 0
             /\ pc' = "idle"]_vars

\* ---------------------------------------------------------------------
\* Claims about the monitoring loops
\* ---------------------------------------------------------------------
\* a handler has recorded an Interrupt or a Suspend that nobody consumed yet
PendingCancel == signal_received = 1 /\ which_signal \in {"SIGINT", "SIGTSTP"}

\* the step sends a signal from the loop to process p
LoopSignals(p) ==
    \E sig \in {"SIGINT", "SIGTSTP", "SIGSTOP"} :
        KillRec(p, sig, "main") \in kills' \ kills

\* C24: an iteration of the monitoring loop that starts with an Interrupt
\* or Suspend event present (a key event, or the flag a signal handler set)
\* signals the foreground process, every stage in the case of a pipeline,
\* and leaves the loop, whatever the time budget still is.
C24_CancelActedOnNextPoll ==
    [][/\ \A key \in Keys, rd \in ReadOutcomes :
             (ExecLoop(key, rd) /\ (key # "none" \/ PendingCancel))
             => (pc' = "post" /\ LoopSignals(pid))
       /\ \A rd \in ReadOutcomes :
             (PipeLoop(rd) /\ PendingCancel)
             => (pc' = "pipe_post" /\ \A k \in 1..Len(pids) : LoopSignals(pids[k]))]_vars

\* ---------------------------------------------------------------------
\* Claims about fg on a job of the table
\* ---------------------------------------------------------------------
\* the table without the job that has the given id
WithoutJob(tbl, id) == SelectSeq(tbl, LAMBDA j : j.job_id # id)

C26_FgDefaultsToNewestJob ==
    [][(handle_fg_command(FgLine(0)) /\ bg_processes # <<>>) =>
          /\ Len(emitted') >= 1
          /\ emitted'[1].kind \in {"fg_resumed", "fg_resume_failed"}
          /\ \A id \in JobIds : emitted'[1].job >= id
          /\ emitted'[1].job \in JobIds]_vars

\* ---------------------------------------------------------------------
\* The single-command path after the monitoring loop, step by step, with a
\* child that may go on writing
\* ---------------------------------------------------------------------
\* the child writes one more byte into the capture pipe
ChildWrite ==
    /\ pc \in {"collect", "post", "drain"}
    /\ procs[pid] = "running"
    /\ pipe_bytes < PIPE_CAPACITY
    /\ pipe_bytes' = pipe_bytes + 1
    /\ UNCHANGED <<stream, stream_pos, full_output, cap_warned, cap_pc>>
    /\ UNCHANGED <<jobvars, assigned_ids, histvars, pipevars, mwvars, cwd, status>>

\* "Handle timeout": the error and kill(pid, SIGKILL) when the budget is used up;
\* full_output is from here on what the remaining-data loop has appended
PostTimeoutKill ==
    /\ pc = "post"
    /\ LET timed == timeout_counter >= MAX_TIMEOUT
       IN /\ emitted' = IF timed THEN Append(emitted, Msg("timed_out", 0, "", <<>>))
                        ELSE emitted
          /\ kills' = IF timed THEN kills \cup {KillRec(pid, "SIGKILL", "main")} ELSE kills
          /\ procs' = IF timed
                      THEN [procs EXCEPT ![pid] =
                               CHOOSE st \in SigOutcomes(procs[pid], "SIGKILL") : TRUE]
                      ELSE procs
    /\ pc' = "drain"
    /\ full_output' = <<>>
    /\ UNCHANGED <<foreground_pid, current_command, bg_processes, job_counter,
                   signal_received, which_signal, pid, child_exited, timeout_counter,
                   found_job_index, target_pid, target_job_id>>
    /\ UNCHANGED <<stream, stream_pos, cap_warned, cap_pc, pipe_bytes>>
    /\ UNCHANGED <<assigned_ids, histvars, pipevars, mwvars, cwd, status>>

\* "Read any remaining data": read() returns the bytes that are in the pipe,
\* at most sizeof(buffer) - 1 of them, and the while loop goes round again
PostDrainRead ==
    /\ pc = "drain"
    /\ pipe_bytes > 0
    /\ LET bytes_read == IF pipe_bytes > READ_BUFFER_SIZE - 1
                         THEN READ_BUFFER_SIZE - 1 ELSE pipe_bytes
       IN /\ pipe_bytes' = pipe_bytes - bytes_read
          /\ full_output' =
                IF Len(full_output) + bytes_read < OUTPUT_BUFFER_SIZE - 1
                THEN full_output \o [k \in 1..bytes_read |-> Len(full_output) + k]
                ELSE full_output
    /\ UNCHANGED <<stream, stream_pos, cap_warned, cap_pc>>
    /\ UNCHANGED <<jobvars, assigned_ids, histvars, pipevars, mwvars, cwd, status>>

\* read() finds the pipe empty (0 at end of file, -1 with EAGAIN): the
\* while loop ends
PostDrainEnd ==
    /\ pc = "drain"
    /\ pipe_bytes = 0
    /\ pc' = "reap"
    /\ UNCHANGED <<foreground_pid, current_command, bg_processes, job_counter,
                   signal_received, which_signal, procs, kills, pid, child_exited,
                   timeout_counter, found_job_index, target_pid, target_job_id, emitted>>
    /\ UNCHANGED <<assigned_ids, histvars, extvars>>

\* close(pipefd[0]) and "Ensure no zombie processes"
PostReap ==
    /\ pc = "reap"
    /\ LET alive == child_exited = 0 /\ IsLiveChild(procs[pid])
       IN /\ kills' = IF alive THEN kills \cup {KillRec(pid, "SIGKILL", "main")} ELSE kills
          /\ procs' = IF child_exited = 0 /\ (IsLiveChild(procs[pid]) \/ IsZombie(procs[pid]))
                      THEN [procs EXCEPT ![pid] = "gone"] ELSE procs
    /\ pipe_bytes' = 0
    /\ pc' = "return"
    /\ UNCHANGED <<foreground_pid, current_command, bg_processes, job_counter,
                   signal_received, which_signal, pid, child_exited, timeout_counter,
                   found_job_index, target_pid, target_job_id, emitted>>
    /\ UNCHANGED <<stream, stream_pos, full_output, cap_warned, cap_pc>>
    /\ UNCHANGED <<assigned_ids, histvars, pipevars, mwvars, cwd, status>>

NextDrain ==
    \/ handle_sigint
    \/ handle_sigtstp
    \/ \E p \in Pids : ChildExit(p)
    \/ ChildWrite
    \/ \E line \in LaunchCommands, fork_ok \in BOOLEAN : ExecLaunch(line, fork_ok)
    \/ \E key \in Keys, rd \in ReadOutcomes : ExecLoop(key, rd)
    \/ PostTimeoutKill
    \/ PostDrainRead
    \/ PostDrainEnd
    \/ PostReap
    \/ ExecReturn
    \/ MainLoopSignals

\* the shell's own steps are taken when they can be; nothing is assumed
\* about the child or about signals
DrainSpec ==
    /\ Init
    /\ [][NextDrain]_vars
    /\ WF_vars(\E key \in Keys, rd \in ReadOutcomes : ExecLoop(key, rd))
    /\ WF_vars(PostTimeoutKill)
    /\ WF_vars(PostDrainRead)
    /\ WF_vars(PostDrainEnd)
    /\ WF_vars(PostReap)
    /\ WF_vars(ExecReturn)

\* C27: a command that has been forked always comes back: execute_command
\* returns to the prompt with no foreground process, whatever the child
\* does (it may never exit and may write without end).
C27_ExecuteCommandReturns ==
    (pc = "collect") ~> (pc = "idle" /\ foreground_pid = -1)

\* ---------------------------------------------------------------------
\* Claims about the timeout
\* ---------------------------------------------------------------------
\* C28: when the monitoring loop has seen the child exit and has reaped it
\* (every stage, for a pipeline), the code after the loop reports no
\* timeout and sends no signal, also when the exit was seen in the last
\* iteration the budget allows.
C28_NoTimeoutAfterReapedExit ==
    /\ [][(ExecPost /\ child_exited = 1) =>
             /\ ~HasMsg(emitted', "timed_out")
             /\ kills' = kills]_vars
    /\ [][(PipePost /\ all_children_exited = 1) =>
             /\ ~HasMsg(emitted', "pipeline_timed_out")
             /\ kills' = kills]_vars

\* ---------------------------------------------------------------------
\* Accepting a search: Enter in search mode (handle_keypress)
\* ---------------------------------------------------------------------
\* tab->current_command after the Enter handler has acted on search_result:
\* found_command when search_history returned 1, cleared in every other case
AcceptedCommand == IF search_ret = 1 THEN found_command ELSE <<>>

\* the maximal score of the history against the current search term
MaxScore == MaxOf({0} \cup {Score(i) : i \in 1..history_count})
\* the entries that reach it
TopEntries == {i \in 1..history_count : Score(i) = MaxScore}

\* C29: when a search is accepted (search_history called with
\* show_multiple = 1 on a non-empty term) the list of matches is shown only
\* if at least two entries share the maximal score, an entry that alone
\* has the highest score becomes the current command line, and the list
\* never holds more than MAX_DISPLAY_MATCHES matches
C29_ListOnlyForTiedBest ==
    [][(search_history(1) /\ search_buffer # <<>>) =>
          /\ Len(search_listed') <= MAX_DISPLAY_MATCHES
          /\ (search_listed' # <<>>) =>
                 (MaxScore >= 1 /\ Cardinality(TopEntries) >= 2)
          /\ (MaxScore >= 1 /\ Cardinality(TopEntries) = 1) =>
                 \A i \in TopEntries : AcceptedCommand' = command_history[i]]_vars

\* ---------------------------------------------------------------------
\* find_longest_common_substring as a function of its two arguments
\* ---------------------------------------------------------------------
\* the longest argument the model passes
MaxLcsLen == 3
\* the arguments: strings of 'a', 'b' and 'A', the empty one included
LcsStrings == Strs(SearchAlphabet \cup {65}, MaxLcsLen)

\* the search term and one history entry, both arbitrary
LcsInit ==
    /\ JobInit
    /\ ExtInit
    /\ search_buffer \in LcsStrings
    /\ command_history \in {<<entry>> : entry \in LcsStrings}
    /\ history_current = 1
    /\ appended = <<>>
    /\ search_ret = -2
    /\ found_command = <<>>
    /\ search_listed = <<>>
    /\ match_length = -1

\* match_length = find_longest_common_substring(multibyte_search,
\* multibyte_history), the call search_history's Step 3 makes for an entry
LcsCall ==
    /\ match_length = -1
    /\ match_length' = find_longest_common_substring(
                           ToMultibyte(search_buffer),
                           ToMultibyte(command_history[1]))
    /\ UNCHANGED <<command_history, history_current, appended, search_buffer,
                   search_ret, found_command, search_listed>>
    /\ UNCHANGED <<jobvars, assigned_ids, extvars>>

NextLcs == LcsCall

LcsSpec == LcsInit /\ [][NextLcs]_vars

\* two bytes are equal, or are the upper and lower case of one ASCII letter
SameIgnoringCase(c, d) ==
    \/ c = d
    \/ \E u \in 65..90 : {c, d} = {u, u + 32}

\* s[i..i+n-1] and t[j..j+n-1] agree character by character ignoring case
CommonAt(s, t, i, j, n) ==
    \A k \in 0..(n - 1) : SameIgnoringCase(s[i + k], t[j + k])

\* the lengths of the contiguous substrings s and t have in common
CommonLengths(s, t) ==
    {n \in 0..Len(s) : n <= Len(t) /\
        \E i \in 1..(Len(s) - n + 1), j \in 1..(Len(t) - n + 1) :
            CommonAt(s, t, i, j, n)}

\* s occurs in t ignoring case
OccursIgnoringCase(s, t) == Len(s) \in CommonLengths(s, t)

\* C30: find_longest_common_substring(term, entry) is the length of the
\* longest contiguous substring the two have in common ignoring case; for
\* non-empty arguments it is len(term) exactly when term occurs in entry
\* ignoring case, and it is 0 when either argument is empty
C30_LcsIsLongestCommonSubstring ==
    match_length # -1 =>
        LET term  == search_buffer
            entry == command_history[1]
        IN /\ match_length = MaxOf(CommonLengths(term, entry))
           /\ (term # <<>> /\ entry # <<>>) =>
                  (match_length = Len(term) <=> OccursIgnoringCase(term, entry))
           /\ (term = <<>> \/ entry = <<>>) => match_length = 0

\* a call that Step 4 decides: the term does not occur in the entry, the
\* common part is two characters long and needs the case folding
C30_Witness ==
    /\ match_length = 2
    /\ Len(search_buffer) = 3
    /\ ~OccursIgnoringCase(search_buffer, command_history[1])
    /\ \E i \in 1..Len(search_buffer) : search_buffer[i] = 65
    /\ \A j \in 1..Len(command_history[1]) : command_history[1][j] # 65

\* ---------------------------------------------------------------------
\* execute_command: the result shown for a finished command (Step 8 of the
\* single path, the end of Step 9 of the pipeline path)
\* ---------------------------------------------------------------------
\* the largest exit code of the model's commands
MaxExitCode == 2
\* the signals that end the model's commands: SIGINT, SIGKILL, SIGPIPE
TermSignals == {2, 9, 13}
\* how the finished command (the last stage of a pipeline) can have terminated
WaitStatuses ==
    {WaitStatus("exited", n) : n \in 0..MaxExitCode}
        \cup {WaitStatus("signaled", n) : n \in TermSignals}
\* what the read loops can have stored in full_output:
\* full_output_len stays below OUTPUT_BUFFER_SIZE - 1
ResultOutputs == Strs(SearchAlphabet, OUTPUT_BUFFER_SIZE - 2)

\* the command has been collected and reaped and tab->foreground_pid is -1
\* again: pc is "show" on the single path, "pipe_show" on the pipeline path
ResultInit ==
    /\ pc \in {"show", "pipe_show"}
    /\ foreground_pid = -1
    /\ current_command \in LaunchCommands
    /\ bg_processes = <<>>
    /\ job_counter = 0
    /\ signal_received = 0
    /\ which_signal = NoSignal
    /\ procs = [p \in Pids |-> IF p = 1 THEN "gone" ELSE "unborn"]
    /\ kills = {}
    /\ pid = 1
    /\ child_exited = 1
    /\ timeout_counter = 1
    /\ found_job_index = -1
    /\ target_pid = -1
    /\ target_job_id = -1
    /\ emitted = <<>>
    /\ assigned_ids = {}
    /\ HistInit
    /\ PipeVarsInit
    /\ MwVarsInit
    /\ cwd = StartDir
    /\ stream = <<>>
    /\ stream_pos = 0
    /\ full_output \in ResultOutputs
    /\ cap_warned = FALSE
    /\ cap_pc = "idle"
    /\ pipe_bytes = 0
    /\ status \in WaitStatuses

\* add_text_to_buffer of the result and the return to the main loop
ShowAndReturn(kind, n) ==
    /\ emitted' = Append(emitted, Msg(kind, n, "", full_output))
    /\ current_command' = <<>>
    /\ pc' = "idle"
    /\ UNCHANGED <<foreground_pid, bg_processes, job_counter, signal_received,
                   which_signal, procs, kills, pid, child_exited, timeout_counter,
                   found_job_index, target_pid, target_job_id>>
    /\ UNCHANGED <<assigned_ids, histvars, extvars>>

\* Step 8 of the single path
ShowResult ==
    /\ pc = "show"
    /\ IF Len(full_output) > 0 THEN ShowAndReturn("output", 0)
       ELSE IF status.how = "exited" /\ status.n # 0
            THEN ShowAndReturn("exit_code", status.n)
       ELSE IF status.how = "signaled" THEN ShowAndReturn("signal", status.n)
       ELSE ShowAndReturn("success", 0)

\* "Display pipeline output": the wait status is not looked at
PipeShowResult ==
    /\ pc = "pipe_show"
    /\ IF Len(full_output) > 0 THEN ShowAndReturn("output", 0)
       ELSE ShowAndReturn("empty", 0)

NextResult == ShowResult \/ PipeShowResult

ResultSpec == ResultInit /\ [][NextResult]_vars

\* the class of result a captured text and a wait status call for
ResultClass(text, st) ==
    IF text # <<>> THEN "output"
    ELSE IF st.how = "exited" /\ st.n # 0 THEN "exit_code"
    ELSE IF st.how = "signaled" THEN "signal"
    ELSE "empty_or_success"

\* the class of a result line that was shown
ShownClass(m) == IF m.kind \in {"success", "empty"} THEN "empty_or_success" ELSE m.kind

\* C31: the result shown for a finished command, single or pipeline, is the
\* captured text if there is any, else the exit-code message for a
\* non-zero exit code, else the signal message for a death by signal, else
\* the empty/success result
C31_ResultClassification ==
    [][(ShowResult \/ PipeShowResult) =>
          ShownClass(emitted'[Len(emitted')]) = ResultClass(full_output, status)]_vars

\* ---------------------------------------------------------------------
\* multiWatch: what the monitor displays of a command's temporary file
\* ---------------------------------------------------------------------
\* C32: every byte a watched command wrote is displayed at most once; the
\* read made when the command is found finished displays only bytes that
\* the polling reads had not displayed
C32_EachByteEmittedOnce ==
    \A i \in MwIndexes :
        \A a, b \in 1..Len(mw_shown[i]) : a # b => mw_shown[i][a] # mw_shown[i][b]

\* ---------------------------------------------------------------------
\* multiWatch: the monitor loop ends
\* ---------------------------------------------------------------------
\* the scheduler runs the shell, so a monitor iteration, the final cleanup
\* and each step of cleanup_multiwatch are taken when they can be; every
\* process that can terminate does so in the end
MwLiveSpec ==
    /\ Init
    /\ [][NextMw]_vars
    /\ WF_vars(\E key \in MwKeys : MwMonitor(key))
    /\ WF_vars(MwFinal)
    /\ WF_vars(MwCleanupTerm)
    /\ WF_vars(MwCleanupGrace)
    /\ WF_vars(MwCleanupBlock)
    /\ WF_vars(MwCleanupReturn)
    /\ \A p \in Pids : WF_vars(ChildExit(p))

\* the entries the monitor watches (active) whose process has not terminated
StillActive ==
    {i \in 1..multiwatch_count :
        multiwatch_processes[i].active = 1
            /\ IsLiveChild(procs[multiwatch_processes[i].pid])}

\* C33: the monitor loop is left while a watched process is still active
\* only by a cancellation, which goes straight to the cleanup; and a
\* monitor whose processes all exit is left in the end, cleanup_multiwatch
\* runs and multiWatch returns, with the completion message unless it was
\* cancelled
C33_MonitorEndsWhenAllExited ==
    /\ [][(pc = "mw_monitor" /\ pc' # "mw_monitor" /\ StillActive' # {}) =>
             (pc' = "mw_cleanup" /\ cleanup_from' = "cancel")]_vars
    /\ [][(pc = "mw_monitor" /\ pc' = "mw_final") =>
             (\A i \in 1..multiwatch_count : multiwatch_processes'[i].active = 0)]_vars
    /\ (pc = "mw_monitor") ~>
           (MwReturned /\ cleanup_calls = 1 /\ cleanup_from \in {"final", "cancel"})

\* a monitor that ended by itself after a watched command had finished
C33_Witness ==
    /\ MwReturned
    /\ cleanup_from = "final"
    /\ \E i \in MwIndexes : mw_finished[i]

\* ---------------------------------------------------------------------
\* multiWatch: more commands than the table holds
\* ---------------------------------------------------------------------
RECURSIVE QuotedCount(_)
\* the number of non-empty double-quoted strings in a well-formed argument text
QuotedCount(s) ==
    LET t == SkipSpaces(s)
    IN IF t = <<>> THEN 0
       ELSE LET close == CHOOSE j \in 2..Len(t) :
                             t[j] = 34 /\ \A k \in 2..(j - 1) : t[k] # 34
            IN (IF close > 2 THEN 1 ELSE 0) + QuotedCount(SubSeq(t, close + 1, Len(t)))

\* the well-formed lines with more than MAX_MULTIWATCH_COMMANDS commands
TooManyMwLines ==
    {line \in MwLines \ MalformedMwLines :
        QuotedCount(SubSeq(line, Len(StrMultiWatch) + 1, Len(line)))
            > MAX_MULTIWATCH_COMMANDS}

\* C34: a multiWatch line with more than MAX_MULTIWATCH_COMMANDS quoted
\* commands is answered with the "Too many commands specified" error and
\* starts nothing; it is never run with its first commands only
C34_TooManyCommandsRejected ==
    [][\A line \in TooManyMwLines :
          execute_command(line) =>
             /\ HasMsg(emitted', "multiwatch_too_many")
             /\ procs' = procs
             /\ temp_files' = temp_files
             /\ multiwatch_mode' = 0
             /\ pc' = "idle"]_vars

\* ---------------------------------------------------------------------
\* The foreground slot over every operation that sets it
\* ---------------------------------------------------------------------
\* the job control engine together with the pipeline path of execute_command,
\* for a two-stage pipeline whose pipe() or second fork() may fail
NextForeground ==
    \/ Next
    \/ \E pf \in {-1, 0}, ff \in {-1, 1} : PipeLaunch(PipeLine(2), pf, ff)
    \/ \E rd \in ReadOutcomes : PipeLoop(rd)
    \/ PipePost
    \/ PipeWaitAll

ForegroundSpec == Init /\ [][NextForeground]_vars

\* C35: whenever the shell is idle between two submitted lines the
\* foreground slot is empty: execute_command (single command and pipeline)
\* and handle_fg_command reset tab->foreground_pid to -1 before they
\* return, whatever signals arrive meanwhile
C35_ForegroundSlotEmptyWhenIdle ==
    pc = "idle" => foreground_pid = -1

\* the shell is idle again after a command whose foreground process was
\* suspended on the way
C35_Witness ==
    /\ pc = "idle"
    /\ foreground_pid = -1
    /\ bg_processes # <<>>
    /\ HasMsg(emitted, "result")

\* ---------------------------------------------------------------------
\* Children left behind by an operation
\* ---------------------------------------------------------------------
\* the children of the shell that exist and have not been waited for
Unreaped == {p \in DOMAIN procs : IsLiveChild(procs[p]) \/ IsZombie(procs[p])}

\* C36: when an operation has returned, every child it forked has been
\* waited for, whatever path it took (a fork failure in the middle of a
\* pipeline, a multiWatch child whose temporary file could not be opened
\* for reading); only the jobs of the job table are still to be reaped
C36_ChildrenReapedOnReturn ==
    pc = "idle" =>
        \A p \in Unreaped : \E i \in 1..Len(bg_processes) : bg_processes[i].pid = p

\* ---------------------------------------------------------------------
\* The job table as a set of processes
\* ---------------------------------------------------------------------
\* C37: no pid is in two entries of the job table, in any state, a
\* SIGTSTP delivered while fg waits for the job it resumed included
C37_NoPidInTwoJobs ==
    \A i, j \in 1..Len(bg_processes) :
        i # j => bg_processes[i].pid # bg_processes[j].pid

\* C38: whatever suspends, jobs and fg commands have run, the table holds
\* between 0 and MAX_BG_JOBS entries and their job_ids increase strictly
\* with the index; a suspend that finds the table full adds no entry and
\* uses up no job_id
C38_JobTableBoundedAndOrdered ==
    /\ [](bg_job_count >= 0 /\ bg_job_count <= MAX_BG_JOBS)
    /\ [](\A i, j \in 1..Len(bg_processes) :
             i < j => bg_processes[i].job_id < bg_processes[j].job_id)
    /\ [][(handle_sigtstp /\ bg_job_count = MAX_BG_JOBS) =>
             (bg_processes' = bg_processes /\ job_counter' = job_counter)]_vars

\* a suspend has found the table full: during the wait of fg the handler
\* has emptied the foreground slot, and the table, still full, holds no
\* second entry for the resumed process
C38_Witness ==
    /\ pc = "fg_wait"
    /\ foreground_pid = -1
    /\ bg_job_count = MAX_BG_JOBS
    /\ Cardinality(JobPids) = MAX_BG_JOBS
    /\ target_pid \in JobPids

\* ---------------------------------------------------------------------
\* History navigation with the Up and Down keys (handle_keypress)

\* Up at the oldest entry steps once more
CanGoBack_AtFirst == history_current >= 0

\* case XK_Up: ... && active_tab->history_current > 0
CanGoBack == history_current > 0

\* what wcscpy reads from command_history[index] (0-based): the entry, or
\* whatever lies outside the used part of the array
HistoryEntryAt(index) ==
    IF index \in 0..(history_count - 1) THEN {command_history[index + 1]}
    ELSE Strs(HistAlphabet, 1)

\* case XK_Up: one entry back, copied into the command line
XK_Up(search_mode) ==
    /\ pc = "idle"
    /\ IF search_mode = 0 /\ CanGoBack
       THEN /\ history_current' = history_current - 1
            /\ current_command' \in HistoryEntryAt(history_current')
       ELSE UNCHANGED <<history_current, current_command>>
    /\ UNCHANGED <<command_history, appended, search_buffer, search_ret,
                   found_command, search_listed, match_length>>
    /\ UNCHANGED <<pc, foreground_pid, bg_processes, job_counter,
                   signal_received, which_signal, procs, kills, pid,
                   child_exited, timeout_counter, found_job_index, target_pid,
                   target_job_id, emitted, assigned_ids, extvars>>

\* case XK_Down: one entry forward, or past the newest entry to an empty
\* command line
XK_Down(search_mode) ==
    /\ pc = "idle"
    /\ IF search_mode # 0
       THEN UNCHANGED <<history_current, current_command>>
       ELSE IF history_current < history_count - 1
       THEN /\ history_current' = history_current + 1
            /\ current_command' \in HistoryEntryAt(history_current')
       ELSE IF history_current = history_count - 1
       THEN /\ history_current' = history_count
            /\ current_command' = <<>>
       ELSE UNCHANGED <<history_current, current_command>>
    /\ UNCHANGED <<command_history, appended, search_buffer, search_ret,
                   found_command, search_listed, match_length>>
    /\ UNCHANGED <<pc, foreground_pid, bg_processes, job_counter,
                   signal_received, which_signal, procs, kills, pid,
                   child_exited, timeout_counter, found_job_index, target_pid,
                   target_job_id, emitted, assigned_ids, extvars>>

\* the lines submitted between key presses: those made of 'a' only, the
\* empty line included (the navigation never looks at an entry's content)
NavCommands == {EnterCommand(line) : line \in Strs({97}, MAX_COMMAND_LENGTH - 1)}

\* lines are submitted and the arrow keys pressed in any order
NextNav ==
    \/ \E command \in NavCommands : add_to_history(command)
    \/ \E search_mode \in {0, 1} : XK_Up(search_mode)
    \/ \E search_mode \in {0, 1} : XK_Down(search_mode)

NavSpec == Init /\ [][NextNav]_vars

\* the Up or Down key press copies a history entry into the command line
CopiesEntry ==
    \/ \E search_mode \in {0, 1} :
          XK_Up(search_mode) /\ history_current' = history_current - 1
    \/ \E search_mode \in {0, 1} :
          XK_Down(search_mode) /\ history_current' = history_current + 1
                               /\ history_current < history_count - 1

\* C39: -1 <= history_current <= history_count after any sequence of
\* add_to_history calls and Up/Down key presses, evictions at capacity
\* included, and every entry Up or Down copies into the command line is
\* read at an index in 0 .. history_count - 1
C39_HistoryIndexInRange ==
    /\ [](history_current >= -1 /\ history_current <= history_count)
    /\ [][CopiesEntry => history_current' \in 0..(history_count - 1)]_vars

\* after an eviction, Up has copied an entry other than the newest into
\* the command line
C39_Witness ==
    /\ Len(appended) > MAX_HISTORY_SIZE
    /\ history_count = MAX_HISTORY_SIZE
    /\ history_current \in 0..(history_count - 2)
    /\ current_command = command_history[history_current + 1]

====
